---- MODULE Spec2Model ----
(***************************************************************************)
(* UltraForward: a Telegram relay bot.  Private messages of end users are  *)
(* gated behind a captcha, flood-limited, classified and copied into a     *)
(* per-user forum topic of a staff group; staff messages go the other way. *)
(*                                                                         *)
(* A handler is one coroutine of python-telegram-bot processing one        *)
(* update.  Every action below is the effect of the operation the handler  *)
(* was awaiting, followed by the synchronous code up to its next await.    *)
(* Gateway replies to the sender that touch no state of the bot are folded *)
(* into the step that sends them and are recorded in the ghost log.        *)
(***************************************************************************)
EXTENDS Integers, Sequences, FiniteSets, TLC

\* ------------------------------------------------------------------ bounds
NumUsers == 2
NumRaceUsers == 2
NumSlots == 2
MaxUpdates == 2
MaxTime == 1
Ttl == 1
MaxSeqUpdates == 5
MaxSeqTime == 2
MaxFloodUpdates == 12
MaxFloodTime == 5
MaxWindow == 2
MaxCalls == 5
MaxCallTime == 4
NumCallers == 2
MaxMsgId == 2
MaxMapCalls == 3
MaxMapTime == 3
MaxTextLen == 2
MaxWords == 2
MaxTopicUpdates == 3
MaxPropUpdates == 3
MaxStaffUpdates == 3
MaxUnbanUpdates == 4
MaxTimeoutUpdates == 3
MaxTimeoutTime == 1
MaxTyping == 2
MaxClassifierCalls == 3
MaxTrustedUpdates == 3
MaxOrderUpdates == 3
MaxBlockedUpdates == 3
MaxRetryUpdates == 6
MaxRetryTime == 2
MaxReactions == 3

\* ------------------------------------------------------- program constants
FloodWindow == 4
FloodBlockAbove == 10
FloodWarnAbove == 7
MaxAttempts == 3
RetentionDays == 2

Users == 1..NumUsers
\* The users whose updates race in Spec.
RaceUsers == 1..NumRaceUsers
\* Ids in the staff group: 1..NumUsers are the topics of earlier members, then
\* the moderation topic (runtime setting spam_topic); later ids are fresh.
SpamTopic == NumUsers + 1
Slots == 1..NumSlots
Callers == 1..NumCallers

\* --------------------------------------------------------------- text
\* Message text is a sequence of characters; the empty sequence is a message
\* without text (update.message.text is None, read as "" by `text or ""`).
Codes == { <<"A", "B">>, <<"B", "A">> }
NoCode == << >>
NoText == << >>
TextInputs == { NoText, <<"a", "B">>, <<"B", "A", " ">>, <<"b", "b">> }
RaceTexts == { NoText, <<"a", "B">> }

\* Variant: text compared as typed.
UpperAsTyped(s) == s

UpperChar(c) == CASE c = "a" -> "A" [] c = "b" -> "B" [] OTHER -> c
LowerChar(c) == CASE c = "A" -> "a" [] c = "B" -> "b" [] OTHER -> c
Upper(s) == [i \in DOMAIN s |-> UpperChar(s[i])]
Lower(s) == [i \in DOMAIN s |-> LowerChar(s[i])]

RECURSIVE LStrip(_)
LStrip(s) == IF s # << >> /\ Head(s) = " " THEN LStrip(Tail(s)) ELSE s
RECURSIVE RStrip(_)
RStrip(s) == IF s # << >> /\ s[Len(s)] = " " THEN RStrip(SubSeq(s, 1, Len(s) - 1)) ELSE s
Strip(s) == RStrip(LStrip(s))

\* ------------------------------------------------------------ tri-state
\* A cache flag is absent (get_flag returns None) or holds a value.
None == "None"
True == "True"
False == "False"
Flag(b) == IF b THEN True ELSE False

\* ---------------------------------------------------------------- rows
NoVerify == [present |-> FALSE, code |-> NoCode, expires_at |-> 0, verified |-> FALSE]
NoBlock == [present |-> FALSE, id |-> 0, pinned_msg_id |-> 0]
EmptyUserData == [block |-> None, verify |-> None, verify_attempts |-> -1, to_topic |-> 0]

\* An insert_message call: its arguments as the row to store, where it is, whether
\* its INSERT is flushed but not committed, which lookup found the row in the
\* way, and how the call ended.
NoTxn == [pc |-> "none", row |-> [userid |-> 0, private_message_id |-> 0,
                                  topic_message_id |-> 0],
          pending |-> FALSE, found |-> "", ret |-> ""]

\* select_message found no row.
NoMessage == [id |-> 0, userid |-> 0, private_message_id |-> 0, topic_message_id |-> 0,
              spam |-> FALSE, time |-> 0]

\* A verdict's reason: "keyword" names the word that matched.
Reason(kind, word) == [kind |-> kind, word |-> word]

\* What the classifier's message holds (msg.content), when it is a JSON object
\* by the JSON value of each field.
NoAnswer == [kind |-> "", spam |-> "absent", reason |-> "absent", extra |-> FALSE]

\* No exception.
NoFailure == [cls |-> "", kind |-> ""]

\* config.openai as read by SpamDetector.__init__; nothing set.
NoConfig == [token |-> "", base_url |-> "", model |-> ""]

\* No check_spam call.
NoCheck == [pc |-> "none", configured |-> FALSE, words |-> << >>, text |-> << >>,
            failure |-> NoFailure, answer |-> NoAnswer, requests |-> 0, ret |-> "",
            via |-> "", spam |-> FALSE, reason |-> Reason("", << >>),
            tokens |-> 0, wrap |-> "none", task |-> "none", typed |-> 0,
            config |-> NoConfig, origin |-> ""]

\* No record of the state an update found.
NoSnap == [taken |-> FALSE, db |-> << >>, data |-> EmptyUserData, queue |-> << >>]

Idle == [kind |-> "idle", pc |-> "idle", user |-> 0, topic |-> 0, text |-> NoText,
         msg |-> 0, lock |-> 0, verify |-> NoVerify, topic_id |-> 0, new_topic |-> 0,
         is_spam |-> FALSE, out_msg |-> 0, ret |-> "", mode |-> "", arg |-> FALSE,
         block_data |-> NoBlock, pinned |-> 0, sawVerified |-> FALSE,
         blockedAtStart |-> FALSE, chat |-> "", msg_data |-> NoMessage,
         reaction |-> << >>, reason |-> "", update_id |-> 0, snap |-> NoSnap]

VARIABLES
    now,                        \* clock: datetime.now() and time.monotonic()
    verify_users,               \* table verify_users, by userid
    block_users,                \* table block_users, by userid
    users,                      \* table users: userid -> topic (0: no row)
    messages,                   \* table messages: set of rows
    user_locks,                 \* DataCache.user_locks: userid -> lock (0: absent)
    user_data,                  \* DataCache.user_data
    topic_data,                 \* DataCache.topic_data: the set of <<topic, to_user>>
    user_message_time_queues,   \* DataCache.user_message_time_queues
    lockHeld,                   \* the asyncio.Lock objects currently locked
    lockWaiters,                \* <<lock, slot>> in the order the waiters queued
    h,                          \* the handlers in flight, by slot
    arrivals,                   \* updates received so far
    nextPriv,                   \* next message id in each private chat
    nextGroupId,                \* next message/topic id in the staff group
    passed,                     \* ghost: user passed the challenge or was verified by /verify
    relays,                     \* ghost: private messages copied/forwarded into the group
    lastNotice,                 \* ghost: the notice most recently sent to a user
    wrongSubs,                  \* ghost: wrong submissions compared since the challenge was
                                \* issued; -1 once the cache was emptied in between
    struck,                     \* ghost: blocked by the third wrong submission, not yet unbanned
    sinceUnban,                 \* ghost: wrong submissions compared since the unban of a
                                \* user blocked by wrong submissions; -1 outside such a cycle
    window,                     \* the window passed to flood_message by the caller
    floodHist,                  \* ghost: every timestamp flood_message recorded, by user
    floodRet,                   \* ghost: last value returned by flood_message, by user
    calls,                      \* direct flood_message calls made
    txn,                        \* the insert_message transactions in flight, by caller
    pool,                       \* connections left in the engine's pool
    gw,                         \* ghost: calls made to the Telegram gateway (a set)
    sp                          \* the check_spam call under study

dbVars == <<verify_users, block_users, users, messages>>
cacheVars == <<user_locks, user_data, topic_data, user_message_time_queues>>
lockVars == <<lockHeld, lockWaiters>>
idVars == <<nextPriv, nextGroupId>>
ghostVars == <<passed, relays, lastNotice, wrongSubs, struck, sinceUnban>>
\* callVars without the gateway log.
flowVars == <<window, floodHist, floodRet, calls, txn, pool, sp>>
callVars == <<window, floodHist, floodRet, calls, txn, pool, gw, sp>>
vars == <<now, dbVars, cacheVars, lockVars, h, arrivals, idVars, ghostVars, callVars>>

\* ------------------------------------------------------------ repository
\* Every UFRepository method is one transaction; a handler sees it as one step.
select_valid_verify(tbl, u) == tbl[u]

select_verified(tbl, u) == tbl[u].present /\ tbl[u].verified

\* Variant: a challenge that expires the moment it is issued.
insert_verify_no_ttl(tbl, u, code, t) ==
    [tbl EXCEPT ![u] = [present |-> TRUE, code |-> code, expires_at |-> t,
                        verified |-> FALSE]]

insert_verify(tbl, u, code, t) ==
    [tbl EXCEPT ![u] = [present |-> TRUE, code |-> code, expires_at |-> t + Ttl,
                        verified |-> FALSE]]

\* Variant: the new code keeps the old expiry.
update_verify_code_only(tbl, u, code, t) ==
    IF tbl[u].present THEN [tbl EXCEPT ![u].code = code] ELSE tbl

update_verify_code(tbl, u, code, t) ==
    IF tbl[u].present
    THEN [tbl EXCEPT ![u].code = code, ![u].expires_at = t + Ttl]
    ELSE tbl

\* Variant: the record is left as it was.
update_verified_skipped(tbl, u, v) == tbl

update_verified(tbl, u, v) ==
    IF tbl[u].present THEN [tbl EXCEPT ![u].verified = v] ELSE tbl

\* Variant: the block table is never consulted.
select_block_skipped(tbl, u) == FALSE

select_block(tbl, u) == tbl[u].present

select_block_raw(tbl, u) == tbl[u]

\* The primary key of a new row (SQLite rowid: one more than the largest in use).
RECURSIVE MaxBlockId(_, _)
MaxBlockId(tbl, n) ==
    IF n = 0 THEN 0
    ELSE IF tbl[n].id > MaxBlockId(tbl, n - 1) THEN tbl[n].id ELSE MaxBlockId(tbl, n - 1)

insert_block(tbl, u, pinned) ==
    IF tbl[u].present
    THEN IF pinned # 0 /\ tbl[u].pinned_msg_id = 0
         THEN [tbl EXCEPT ![u].pinned_msg_id = pinned]
         ELSE tbl
    ELSE [tbl EXCEPT ![u] = [present |-> TRUE, id |-> MaxBlockId(tbl, NumUsers) + 1,
                             pinned_msg_id |-> pinned]]

\* session.delete of a detached row: DELETE ... WHERE id = :id
delete_block(tbl, row) ==
    [u \in Users |-> IF tbl[u].present /\ tbl[u].id = row.id THEN NoBlock ELSE tbl[u]]

select_user_by_userid(tbl, u) == tbl[u]

select_user_by_topic(tbl, t) ==
    IF \E u \in Users : tbl[u] = t /\ t # 0
    THEN CHOOSE u \in Users : tbl[u] = t
    ELSE 0

insert_user(tbl, u, topic) ==
    IF tbl[u] # 0 \/ (\E v \in Users : tbl[v] = topic)
    THEN tbl
    ELSE [tbl EXCEPT ![u] = topic]

MessageRow(u, pm, tm, spam, t) ==
    [id |-> 0, userid |-> u, private_message_id |-> pm, topic_message_id |-> tm,
     spam |-> spam, time |-> t]

\* The autoincrement primary key of a new row of messages.
NextMessageId(rows) ==
    IF rows = {} THEN 1
    ELSE 1 + (CHOOSE n \in { r.id : r \in rows } : \A r \in rows : r.id <= n)

\* Variant: a table without unique constraints.
MessageConflictOff(rows, row) == FALSE

\* uq_messages_user_private_msg and the unique topic_message_id
MessageConflict(rows, row) ==
    \E r \in rows :
        \/ r.topic_message_id = row.topic_message_id
        \/ (r.userid = row.userid /\ r.private_message_id = row.private_message_id)

\* One insert_message transaction run on its own: the row is stored unless a
\* unique constraint rejects it, and then one of the two lookups finds the row in
\* the way.
insert_message(rows, row) ==
    IF MessageConflict(rows, row)
    THEN rows
    ELSE rows \cup {[row EXCEPT !.id = NextMessageId(rows)]}

\* ----------------------------------------------------------------- cache
get_flag(data, u, key, default) ==
    CASE key = "block" -> data[u].block
      [] key = "verify" -> data[u].verify
      [] key = "verify_attempts" ->
            IF data[u].verify_attempts < 0 THEN default ELSE data[u].verify_attempts
      [] key = "to_topic" -> data[u].to_topic

\* Variant: an entry exactly one window old is evicted too.
RECURSIVE EvictInclusive(_, _, _)
EvictInclusive(q, t, w) ==
    IF q # << >> /\ (t - Head(q)) >= w THEN EvictInclusive(Tail(q), t, w) ELSE q

RECURSIVE Evict(_, _, _)
Evict(q, t, w) ==
    IF q # << >> /\ (t - Head(q)) > w THEN Evict(Tail(q), t, w) ELSE q

\* Variant: the count leaves out the message being recorded.
flood_message_before(q, t, w) ==
    IF w <= 0
    THEN [queue |-> q, count |-> 0]
    ELSE LET q2 == Evict(Append(q, t), t, w)
         IN [queue |-> q2, count |-> Len(q2) - 1]

\* DataCache.flood_message: the queue afterwards and the value returned.
flood_message(q, t, w) ==
    IF w <= 0
    THEN [queue |-> q, count |-> 0]
    ELSE LET q2 == Evict(Append(q, t), t, w)
         IN [queue |-> q2, count |-> Len(q2)]

clear_user_all_locks(locks) == [u \in Users |-> 0]

\* ----------------------------------------------------------------- locks
HasWaiter(l) == \E i \in DOMAIN lockWaiters : lockWaiters[i][1] = l

FirstWaiter(l) ==
    LET i == CHOOSE i \in DOMAIN lockWaiters :
                 /\ lockWaiters[i][1] = l
                 /\ \A j \in 1..(i - 1) : lockWaiters[j][1] # l
    IN lockWaiters[i][2]

RemoveWaiter(l, s) ==
    LET keep == { i \in DOMAIN lockWaiters : lockWaiters[i] # <<l, s>> }
        F[i \in 0..Len(lockWaiters)] ==
            IF i = 0 THEN << >>
            ELSE IF i \in keep THEN Append(F[i - 1], lockWaiters[i]) ELSE F[i - 1]
    IN F[Len(lockWaiters)]

\* The identities of the lock objects still referenced by the cache, a holder or
\* a waiter; a new asyncio.Lock() is any object that is none of them.
LiveLocks ==
    lockHeld \cup { user_locks[u] : u \in Users } \cup { h[s].lock : s \in Slots }

NewLock == CHOOSE l \in 1..(Cardinality(LiveLocks) + 1) : l \notin LiveLocks

\* DataCache.get_user_lock: the lock cached for the user, or a new one.
get_user_lock(locks, u) == IF locks[u] # 0 THEN locks[u] ELSE NewLock

\* asyncio.Lock.acquire takes a free lock without suspending when nobody waits.
LockFree(l) == l \notin lockHeld /\ ~HasWaiter(l)

\* `async with self.cache.get_user_lock(u)`: rec is the handler's record, which
\* continues at pcIn holding the lock or at pcWait queued on it.
AcquireOrWait(s, u, rec, pcIn, pcWait) ==
    LET l == get_user_lock(user_locks, u) IN
    /\ user_locks' = [user_locks EXCEPT ![u] = l]
    /\ IF LockFree(l)
       THEN /\ lockHeld' = lockHeld \cup {l}
            /\ lockWaiters' = lockWaiters
            /\ h' = [h EXCEPT ![s] = [rec EXCEPT !.pc = pcIn, !.lock = l]]
       ELSE /\ lockHeld' = lockHeld
            /\ lockWaiters' = Append(lockWaiters, <<l, s>>)
            /\ h' = [h EXCEPT ![s] = [rec EXCEPT !.pc = pcWait, !.lock = l]]

\* A queued handler is woken in FIFO order once the lock is released.
Wake(s, pcIn) ==
    /\ h[s].lock \notin lockHeld
    /\ FirstWaiter(h[s].lock) = s
    /\ lockHeld' = lockHeld \cup {h[s].lock}
    /\ lockWaiters' = RemoveWaiter(h[s].lock, s)
    /\ h' = [h EXCEPT ![s].pc = pcIn]
    /\ UNCHANGED user_locks

Release(s) == lockHeld' = lockHeld \ {h[s].lock}

\* ----------------------------------------------------------------- ghost
\* kind names the reply; "banned_cached" and "banned" are the same text, sent by
\* handle_private_message on the cached flag and by msg_to_topic on the record.
Notice(u, m, kind) == [userid |-> u, msg |-> m, kind |-> kind]

Remaining(n) == IF n = 2 THEN "remaining2" ELSE IF n = 1 THEN "remaining1" ELSE "remaining"

\* One more wrong submission in the run that started at the challenge's issue.
Bump(n) == IF n < 0 THEN n ELSE n + 1

Relay(u, m, dest) == [userid |-> u, msg |-> m, dest |-> dest]

\* A call to the gateway: the user it concerns, the message it is about, its
\* argument (a thread, a number of reactions) and the id of what it produced.
CallText(op, u, m, arg, out, text) ==
    [op |-> op, user |-> u, msg |-> m, arg |-> arg, out |-> out, text |-> text]
Call(op, u, m, arg, out) == CallText(op, u, m, arg, out, NoText)

\* ------------------------------------------------------------------ init
\* What the bot holds about a user when the behaviour starts:
\*   "new"      unknown to the bot;
\*   "pending"  a challenge that expires once time 0 is over and two wrong
\*              submissions counted in the cache;
\*   "member"   verified and given a topic by an earlier process, nothing cached;
\*   "banned"   a member with a BlockRecord, nothing cached;
\*   "flooding" a member who has just had FloodBlockAbove messages relayed.
Statuses == {"new", "pending", "member", "banned", "flooding"}
Members == {"member", "banned", "flooding"}

MemberVerify == [present |-> TRUE, code |-> <<"A", "B">>, expires_at |-> 0, verified |-> TRUE]
PendingVerify == [present |-> TRUE, code |-> <<"A", "B">>, expires_at |-> 0,
                  verified |-> FALSE]

InitUserData(status, u) ==
    CASE status = "pending" ->
            [EmptyUserData EXCEPT !.verify = False, !.verify_attempts = MaxAttempts - 1]
      [] status = "flooding" -> [EmptyUserData EXCEPT !.verify = True, !.to_topic = u]
      [] OTHER -> EmptyUserData

InitFrom(st, w) ==
    /\ now = 0
    /\ verify_users = [u \in Users |-> CASE st[u] = "new" -> NoVerify
                                         [] st[u] = "pending" -> PendingVerify
                                         [] OTHER -> MemberVerify]
    /\ block_users = [u \in Users |-> IF st[u] = "banned"
                                      THEN [present |-> TRUE, id |-> u, pinned_msg_id |-> 0]
                                      ELSE NoBlock]
    /\ users = [u \in Users |-> IF st[u] \in Members THEN u ELSE 0]
    /\ messages = {}
    /\ user_locks = [u \in Users |-> 0]
    /\ user_data = [u \in Users |-> InitUserData(st[u], u)]
    /\ topic_data = {}
    /\ user_message_time_queues =
          [u \in Users |-> IF st[u] = "flooding" THEN [i \in 1..FloodBlockAbove |-> 0]
                                                 ELSE << >>]
    /\ lockHeld = {}
    /\ lockWaiters = << >>
    /\ h = [s \in Slots |-> Idle]
    /\ arrivals = 0
    /\ nextPriv = [u \in Users |-> 1]
    /\ nextGroupId = SpamTopic + 1
    /\ passed = [u \in Users |-> st[u] \in Members]
    /\ relays = {}
    /\ lastNotice = Notice(0, 0, "")
    /\ wrongSubs = [u \in Users |-> IF st[u] = "pending" THEN MaxAttempts - 1 ELSE -1]
    /\ struck = [u \in Users |-> FALSE]
    /\ sinceUnban = [u \in Users |-> -1]
    /\ window = w
    /\ floodHist = user_message_time_queues
    /\ floodRet = [u \in Users |-> Len(user_message_time_queues[u])]
    /\ calls = 0
    /\ gw = {}
    /\ sp = NoCheck

\* In Spec the updates of the users in RaceUsers race; the others stay unknown.
Init ==
    \E st \in [Users -> Statuses] :
        /\ \A u \in Users \ RaceUsers : st[u] = "new"
        /\ InitFrom(st, FloodWindow)
        /\ txn = [c \in Callers |-> NoTxn]
        /\ pool = 0

\* ------------------------------------------------------- shared fragments
Finish(s) == h' = [h EXCEPT ![s] = Idle]

\* ------------------------------------------------------------- arrivals
\* An update is handed to a free worker of the concurrent_updates pool; the
\* workers are interchangeable, so the lowest free one takes it.
FreeSlot(s) == h[s].kind = "idle" /\ \A t \in Slots : t < s => h[t].kind # "idle"

ArrivePrivate(s, u, text) ==
    /\ FreeSlot(s)
    /\ arrivals' = arrivals + 1
    /\ h' = [h EXCEPT ![s] = [Idle EXCEPT !.kind = "pm", !.pc = "hpm", !.user = u,
                                          !.text = text, !.msg = nextPriv[u]]]
    /\ nextPriv' = [nextPriv EXCEPT ![u] = @ + 1]
    /\ UNCHANGED <<now, dbVars, cacheVars, lockVars, nextGroupId, ghostVars, callVars>>

ArriveStart(s, u) ==
    /\ FreeSlot(s)
    /\ arrivals' = arrivals + 1
    /\ h' = [h EXCEPT ![s] = [Idle EXCEPT !.kind = "start", !.pc = "start", !.user = u,
                                          !.msg = nextPriv[u]]]
    /\ nextPriv' = [nextPriv EXCEPT ![u] = @ + 1]
    /\ UNCHANGED <<now, dbVars, cacheVars, lockVars, nextGroupId, ghostVars, callVars>>

\* ------------------------------------------------ handle_private_message
\* Variant: every private message goes to msg_to_topic.
HpmBranchUngated(s, rec, verified) ==
    AcquireOrWait(s, rec.user, [rec EXCEPT !.sawVerified = verified],
                  "mt_selblock", "mt_wait")

\* The branch on `verified`: msg_to_topic, or strip the text and _gif_verify.
HpmBranch(s, rec, verified) ==
    IF verified
    THEN AcquireOrWait(s, rec.user, [rec EXCEPT !.sawVerified = TRUE],
                       "mt_selblock", "mt_wait")
    ELSE AcquireOrWait(s, rec.user, [rec EXCEPT !.text = Strip(rec.text)],
                       "gv_select", "gv_wait")

HpmStart(s) ==
    /\ h[s].pc = "hpm"
    /\ LET u == h[s].user
           rec == [h[s] EXCEPT !.blockedAtStart = block_users[u].present]
       IN IF get_flag(user_data, u, "block", None) = True
          THEN /\ lastNotice' = Notice(u, h[s].msg, "banned_cached")
               /\ Finish(s)
               /\ UNCHANGED <<user_locks, lockVars>>
          ELSE /\ lastNotice' = lastNotice
               /\ IF get_flag(user_data, u, "verify", None) = None
                  THEN /\ h' = [h EXCEPT ![s] = [rec EXCEPT !.pc = "hpm_selver"]]
                       /\ UNCHANGED <<user_locks, lockVars>>
                  ELSE HpmBranch(s, rec, get_flag(user_data, u, "verify", None) = True)
    /\ UNCHANGED <<now, dbVars, user_data, topic_data, user_message_time_queues, arrivals,
                   idVars, passed, relays, wrongSubs, struck, sinceUnban, callVars>>

HpmSelectVerified(s) ==
    /\ h[s].pc = "hpm_selver"
    /\ LET u == h[s].user
           verified == select_verified(verify_users, u)
       IN /\ user_data' = [user_data EXCEPT ![u].verify = Flag(verified)]
          /\ HpmBranch(s, h[s], verified)
    /\ UNCHANGED <<now, dbVars, topic_data, user_message_time_queues, arrivals,
                   idVars, ghostVars, callVars>>

\* ----------------------------------------------------------- msg_to_topic
\* After the topic is known: classify text, or go on to copy a message without text.
MtClassify(rec) ==
    IF rec.text # NoText
    THEN [rec EXCEPT !.pc = "mt_spam"]
    ELSE [rec EXCEPT !.pc = "mt_send", !.is_spam = FALSE]

MtWait(s) ==
    /\ h[s].pc = "mt_wait"
    /\ Wake(s, "mt_selblock")
    /\ UNCHANGED <<now, dbVars, user_data, topic_data, user_message_time_queues, arrivals,
                   idVars, ghostVars, callVars>>

MtSelectBlock(s) ==
    /\ h[s].pc = "mt_selblock"
    /\ LET u == h[s].user
           fm == flood_message(user_message_time_queues[u], now, FloodWindow)
           rec == [h[s] EXCEPT !.topic_id = get_flag(user_data, u, "to_topic", None)]
       IN IF select_block(block_users, u)
          THEN /\ lastNotice' = Notice(u, h[s].msg, "banned")
               /\ user_data' = [user_data EXCEPT ![u].block = True]
               /\ Release(s)
               /\ Finish(s)
               /\ UNCHANGED <<user_message_time_queues, floodHist, floodRet>>
          ELSE /\ user_message_time_queues' =
                      [user_message_time_queues EXCEPT ![u] = fm.queue]
               /\ floodHist' = [floodHist EXCEPT ![u] = Append(@, now)]
               /\ floodRet' = [floodRet EXCEPT ![u] = fm.count]
               /\ UNCHANGED lockHeld
               /\ IF fm.count > FloodBlockAbove
                  THEN /\ lastNotice' = Notice(u, h[s].msg, "flood_block")
                       /\ user_data' = [user_data EXCEPT ![u].block = True]
                       /\ h' = [h EXCEPT ![s] = [rec EXCEPT !.pc = "mt_insblock"]]
                  ELSE /\ lastNotice' = IF fm.count > FloodWarnAbove
                                        THEN Notice(u, h[s].msg, "flood_warn")
                                        ELSE lastNotice
                       /\ user_data' = user_data
                       /\ h' = [h EXCEPT ![s] = IF rec.topic_id = 0
                                                THEN [rec EXCEPT !.pc = "mt_seluser"]
                                                ELSE MtClassify(rec)]
    /\ UNCHANGED <<now, dbVars, user_locks, topic_data, lockWaiters, arrivals,
                   idVars, passed, relays, wrongSubs, struck, sinceUnban, window, calls, txn, pool,
                   gw, sp>>

MtInsertBlock(s) ==
    /\ h[s].pc = "mt_insblock"
    /\ block_users' = insert_block(block_users, h[s].user, 0)
    /\ Release(s)
    /\ Finish(s)
    /\ UNCHANGED <<now, verify_users, users, messages, cacheVars, lockWaiters,
                   arrivals, idVars, ghostVars, callVars>>

MtSelectUser(s) ==
    /\ h[s].pc = "mt_seluser"
    /\ LET u == h[s].user
           topic == select_user_by_userid(users, u)
       IN IF topic = 0
          THEN /\ h' = [h EXCEPT ![s].pc = "ct_select", ![s].ret = "mt"]
               /\ user_data' = user_data
          ELSE /\ h' = [h EXCEPT ![s] = MtClassify([h[s] EXCEPT !.topic_id = topic])]
               /\ user_data' = [user_data EXCEPT ![u].to_topic = topic]
    /\ UNCHANGED <<now, dbVars, user_locks, topic_data, user_message_time_queues, lockVars,
                   arrivals, idVars, ghostVars, callVars>>

MtSelectUserAgain(s) ==
    /\ h[s].pc = "mt_seluser2"
    /\ LET u == h[s].user
           topic == select_user_by_userid(users, u)
       IN IF topic = 0
          THEN /\ lastNotice' = Notice(u, h[s].msg, "bot_error")
               /\ Release(s)
               /\ Finish(s)
               /\ user_data' = user_data
          ELSE /\ lastNotice' = lastNotice
               /\ UNCHANGED lockHeld
               /\ h' = [h EXCEPT ![s] = MtClassify([h[s] EXCEPT !.topic_id = topic])]
               /\ user_data' = [user_data EXCEPT ![u].to_topic = topic]
    /\ UNCHANGED <<now, dbVars, user_locks, topic_data, user_message_time_queues,
                   lockWaiters, arrivals, idVars, passed, relays, wrongSubs, struck, sinceUnban,
                   callVars>>

\* check_spam settles: the verdict is the classifier's (or the keyword fallback's).
MtSpam(s) ==
    /\ h[s].pc = "mt_spam"
    /\ \E verdict \in BOOLEAN :
          h' = [h EXCEPT ![s].pc = "mt_send", ![s].is_spam = verdict]
    /\ UNCHANGED <<now, dbVars, cacheVars, lockVars, arrivals, idVars, ghostVars, callVars>>

\* forward_on_spam_topic or copy_message; telegram.error.TimedOut ends the relay.
MtSend(s) ==
    /\ h[s].pc = "mt_send"
    /\ LET u == h[s].user IN
       \E ok \in BOOLEAN :
          IF ok
          THEN /\ relays' = relays \cup {Relay(u, h[s].msg,
                                               IF h[s].is_spam THEN "spam" ELSE "topic")}
               /\ gw' = gw \cup {IF h[s].is_spam
                                 THEN Call("forward_message", u, h[s].msg, SpamTopic,
                                           nextGroupId)
                                 ELSE Call("copy_message", u, h[s].msg, h[s].topic_id,
                                           nextGroupId)}
               /\ nextGroupId' = nextGroupId + 1
               /\ h' = [h EXCEPT ![s].pc = "mt_insmsg", ![s].out_msg = nextGroupId]
               /\ UNCHANGED <<lockHeld, lastNotice>>
          ELSE /\ lastNotice' = Notice(u, h[s].msg, "timeout")
               /\ Release(s)
               /\ Finish(s)
               /\ UNCHANGED <<relays, nextGroupId, gw>>
    /\ UNCHANGED <<now, dbVars, cacheVars, lockWaiters, arrivals, nextPriv,
                   passed, wrongSubs, struck, sinceUnban, flowVars>>

MtInsertMessage(s) ==
    /\ h[s].pc = "mt_insmsg"
    /\ messages' = insert_message(messages,
                        MessageRow(h[s].user, h[s].msg, h[s].out_msg, h[s].is_spam, now))
    /\ Release(s)
    /\ Finish(s)
    /\ UNCHANGED <<now, verify_users, block_users, users, cacheVars, lockWaiters,
                   arrivals, idVars, ghostVars, callVars>>

\* ------------------------------------------------------------ create_topic
\* create_topic returns into _verify_attempts (which then leaves the lock) or
\* into msg_to_topic (which selects the user row again).
CtReturn(s, rec) ==
    IF rec.ret = "va"
    THEN /\ Release(s)
         /\ Finish(s)
    ELSE /\ UNCHANGED lockHeld
         /\ h' = [h EXCEPT ![s] = [rec EXCEPT !.pc = "mt_seluser2"]]

CtSelect(s) ==
    /\ h[s].pc = "ct_select"
    /\ LET u == h[s].user
           existing == select_user_by_userid(users, u)
       IN IF existing # 0
          THEN /\ user_data' = [user_data EXCEPT ![u].to_topic = existing]
               /\ CtReturn(s, h[s])
          ELSE /\ user_data' = user_data
               /\ UNCHANGED lockHeld
               /\ h' = [h EXCEPT ![s].pc = "ct_create"]
    /\ UNCHANGED <<now, dbVars, user_locks, topic_data, user_message_time_queues,
                   lockWaiters, arrivals, idVars, ghostVars, callVars>>

\* create_forum_topic and the introduction; any exception is reported to the
\* admin and create_topic returns without a row, also when the topic was
\* created and the introduction could not be sent.
CtCreate(s) ==
    /\ h[s].pc = "ct_create"
    /\ LET made == Call("create_forum_topic", h[s].user, h[s].msg, nextGroupId, nextGroupId)
       IN \E outcome \in {"ok", "create_failed", "intro_failed"} :
          CASE outcome = "ok" ->
                 /\ nextGroupId' = nextGroupId + 1
                 /\ gw' = gw \cup {made}
                 /\ UNCHANGED lockHeld
                 /\ h' = [h EXCEPT ![s].pc = "ct_insert", ![s].new_topic = nextGroupId]
            [] outcome = "create_failed" ->
                 /\ UNCHANGED <<nextGroupId, gw>>
                 /\ CtReturn(s, h[s])
            [] outcome = "intro_failed" ->
                 /\ nextGroupId' = nextGroupId + 1
                 /\ gw' = gw \cup {made}
                 /\ CtReturn(s, h[s])
    /\ UNCHANGED <<now, dbVars, cacheVars, lockWaiters, arrivals, nextPriv,
                   ghostVars, flowVars>>

CtInsert(s) ==
    /\ h[s].pc = "ct_insert"
    /\ users' = insert_user(users, h[s].user, h[s].new_topic)
    /\ user_data' = [user_data EXCEPT ![h[s].user].to_topic = h[s].new_topic]
    /\ CtReturn(s, h[s])
    /\ UNCHANGED <<now, verify_users, block_users, messages, user_locks, topic_data,
                   user_message_time_queues, lockWaiters, arrivals, idVars,
                   ghostVars, callVars>>

\* ------------------------------------------------------------- _gif_verify
\* _gif_verify returned True: /start ends, a private message goes on to
\* _verify_attempts (awaiting select_valid_verify).
GvPass(s) ==
    IF h[s].kind = "start"
    THEN Finish(s)
    ELSE h' = [h EXCEPT ![s].pc = "va_select", ![s].lock = 0]

\* _send_captcha_gif up to its await of the captcha and the repository.
GvIssue(s, mode) ==
    /\ user_data' = [user_data EXCEPT ![h[s].user].verify = False,
                                      ![h[s].user].verify_attempts = 0]
    /\ wrongSubs' = [wrongSubs EXCEPT ![h[s].user] = 0]
    /\ h' = [h EXCEPT ![s].pc = "sc_persist", ![s].mode = mode]
    /\ UNCHANGED lockHeld

StartBegin(s) ==
    /\ h[s].pc = "start"
    /\ AcquireOrWait(s, h[s].user, h[s], "gv_select", "gv_wait")
    /\ UNCHANGED <<now, dbVars, user_data, topic_data, user_message_time_queues, arrivals,
                   idVars, ghostVars, callVars>>

GvWait(s) ==
    /\ h[s].pc = "gv_wait"
    /\ Wake(s, "gv_select")
    /\ UNCHANGED <<now, dbVars, user_data, topic_data, user_message_time_queues, arrivals,
                   idVars, ghostVars, callVars>>

GvSelect(s) ==
    /\ h[s].pc = "gv_select"
    /\ LET verify == select_valid_verify(verify_users, h[s].user)
       IN IF ~verify.present
          THEN GvIssue(s, "insert")
          ELSE IF verify.verified
          THEN /\ Release(s) /\ GvPass(s) /\ UNCHANGED <<user_data, wrongSubs>>
          ELSE IF verify.expires_at < now
          THEN GvIssue(s, "update")
          ELSE /\ Release(s) /\ GvPass(s) /\ UNCHANGED <<user_data, wrongSubs>>
    /\ UNCHANGED <<now, dbVars, user_locks, topic_data, user_message_time_queues,
                   lockWaiters, arrivals, idVars, passed, relays, lastNotice,
                   struck, sinceUnban, callVars>>

\* The captcha is generated and persisted, the animation is sent.
ScPersist(s) ==
    /\ h[s].pc = "sc_persist"
    /\ \E captcha_text \in Codes :
          verify_users' = IF h[s].mode = "insert"
                          THEN insert_verify(verify_users, h[s].user, captcha_text, now)
                          ELSE update_verify_code(verify_users, h[s].user, captcha_text, now)
    /\ lastNotice' = Notice(h[s].user, h[s].msg,
                            IF h[s].mode = "insert" THEN "challenge" ELSE "expired")
    /\ Release(s)
    /\ Finish(s)
    /\ UNCHANGED <<now, block_users, users, messages, cacheVars, lockWaiters,
                   arrivals, idVars, passed, relays, wrongSubs, struck, sinceUnban, callVars>>

\* --------------------------------------------------------- _verify_attempts
\* Variant: the block comes one wrong submission late.
VaOutcomeLate(text, verify, attempts) ==
    IF Upper(text) = verify.code
    THEN "match"
    ELSE IF MaxAttempts - (attempts + 1) >= 0 THEN "retry" ELSE "block"

VaOutcome(text, verify, attempts) ==
    IF Upper(text) = verify.code
    THEN "match"
    ELSE IF MaxAttempts - (attempts + 1) > 0 THEN "retry" ELSE "block"

\* The code inside `async with` up to its first await, run by the handler whose
\* record is rec as soon as it holds lock l.
VaCompare(s, rec, l) ==
    LET u == rec.user
        attempts == get_flag(user_data, u, "verify_attempts", 0)
        out == VaOutcome(rec.text, rec.verify, attempts)
    IN CASE out = "match" ->
              /\ lockHeld' = lockHeld \cup {l}
              /\ h' = [h EXCEPT ![s] = [rec EXCEPT !.pc = "va_upd", !.lock = l]]
              /\ UNCHANGED <<user_data, lastNotice, wrongSubs, sinceUnban>>
         [] out = "retry" ->
              /\ lockHeld' = lockHeld \ {l}
              /\ h' = [h EXCEPT ![s] = Idle]
              /\ user_data' = [user_data EXCEPT ![u].verify_attempts = attempts + 1]
              /\ lastNotice' = Notice(u, rec.msg, Remaining(MaxAttempts - (attempts + 1)))
              /\ wrongSubs' = [wrongSubs EXCEPT ![u] = Bump(@)]
              /\ sinceUnban' = [sinceUnban EXCEPT ![u] = Bump(@)]
         [] out = "block" ->
              /\ lockHeld' = lockHeld \cup {l}
              /\ h' = [h EXCEPT ![s] = [rec EXCEPT !.pc = "va_insblock", !.lock = l]]
              /\ user_data' = [user_data EXCEPT ![u].verify_attempts = attempts + 1,
                                                ![u].verify = False]
              /\ lastNotice' = Notice(u, rec.msg, "verify_block")
              /\ wrongSubs' = [wrongSubs EXCEPT ![u] = Bump(@)]
              /\ sinceUnban' = [sinceUnban EXCEPT ![u] = Bump(@)]

VaSelect(s) ==
    /\ h[s].pc = "va_select"
    /\ LET u == h[s].user
           verify == select_valid_verify(verify_users, u)
           l == get_user_lock(user_locks, u)
           rec == [h[s] EXCEPT !.verify = verify]
       IN IF ~verify.present \/ verify.verified
          THEN /\ Finish(s)
               /\ UNCHANGED <<user_locks, lockVars, user_data, lastNotice, wrongSubs,
                               sinceUnban>>
          ELSE /\ user_locks' = [user_locks EXCEPT ![u] = l]
               /\ IF LockFree(l)
                  THEN /\ VaCompare(s, rec, l)
                       /\ lockWaiters' = lockWaiters
                  ELSE /\ lockWaiters' = Append(lockWaiters, <<l, s>>)
                       /\ h' = [h EXCEPT ![s] = [rec EXCEPT !.pc = "va_wait", !.lock = l]]
                       /\ UNCHANGED <<lockHeld, user_data, lastNotice, wrongSubs,
                                       sinceUnban>>
    /\ UNCHANGED <<now, dbVars, topic_data, user_message_time_queues, arrivals, idVars,
                   passed, relays, struck, callVars>>

VaWait(s) ==
    /\ h[s].pc = "va_wait"
    /\ h[s].lock \notin lockHeld
    /\ FirstWaiter(h[s].lock) = s
    /\ lockWaiters' = RemoveWaiter(h[s].lock, s)
    /\ VaCompare(s, h[s], h[s].lock)
    /\ UNCHANGED <<now, dbVars, user_locks, topic_data, user_message_time_queues,
                   arrivals, idVars, passed, relays, struck, callVars>>

VaUpdateVerified(s) ==
    /\ h[s].pc = "va_upd"
    /\ verify_users' = update_verified(verify_users, h[s].user, TRUE)
    /\ user_data' = [user_data EXCEPT ![h[s].user].verify = True,
                                      ![h[s].user].verify_attempts = 0]
    /\ lastNotice' = Notice(h[s].user, h[s].msg, "verified")
    /\ passed' = [passed EXCEPT ![h[s].user] = TRUE]
    /\ h' = [h EXCEPT ![s].pc = "ct_select", ![s].ret = "va"]
    /\ UNCHANGED <<now, block_users, users, messages, user_locks, topic_data,
                   user_message_time_queues, lockVars, arrivals, idVars, relays, wrongSubs,
                   struck, sinceUnban, callVars>>

VaInsertBlock(s) ==
    /\ h[s].pc = "va_insblock"
    /\ block_users' = insert_block(block_users, h[s].user, 0)
    /\ user_data' = [user_data EXCEPT ![h[s].user].block = True]
    /\ struck' = [struck EXCEPT ![h[s].user] = TRUE]
    /\ sinceUnban' = [sinceUnban EXCEPT ![h[s].user] = -1]
    /\ Release(s)
    /\ Finish(s)
    /\ UNCHANGED <<now, verify_users, users, messages, user_locks, topic_data,
                   user_message_time_queues, lockWaiters, arrivals, idVars,
                   passed, relays, lastNotice, wrongSubs, callVars>>

\* ------------------------------------------------- handle_topic_message
\* DataCache.get_topic(topic, "to_user")
get_topic(data, t) ==
    IF \E p \in data : p[1] = t THEN (CHOOSE p \in data : p[1] = t)[2] ELSE 0

ArriveTopicMessage(s, t) ==
    /\ FreeSlot(s)
    /\ arrivals' = arrivals + 1
    /\ h' = [h EXCEPT ![s] = [Idle EXCEPT !.kind = "tm", !.pc = "tm", !.topic = t,
                                          !.msg = nextGroupId]]
    /\ nextGroupId' = nextGroupId + 1
    /\ UNCHANGED <<now, dbVars, cacheVars, lockVars, nextPriv, ghostVars, callVars>>

\* _resolve_userid_by_topic from the cache, else awaiting select_user.
TmStart(s) ==
    /\ h[s].pc = "tm"
    /\ LET to_user == get_topic(topic_data, h[s].topic)
       IN IF to_user # 0
          THEN AcquireOrWait(s, to_user, [h[s] EXCEPT !.user = to_user], "tm_copy", "tm_wait")
          ELSE /\ h' = [h EXCEPT ![s].pc = "tm_seluser"]
               /\ UNCHANGED <<user_locks, lockVars>>
    /\ UNCHANGED <<now, dbVars, user_data, topic_data, user_message_time_queues, arrivals,
                   idVars, ghostVars, callVars>>

TmSelectUser(s) ==
    /\ h[s].pc = "tm_seluser"
    /\ LET to_user == select_user_by_topic(users, h[s].topic)
       IN IF to_user = 0
          THEN /\ Finish(s)
               /\ UNCHANGED <<user_locks, lockVars, topic_data>>
          ELSE /\ topic_data' = topic_data \cup {<<h[s].topic, to_user>>}
               /\ AcquireOrWait(s, to_user, [h[s] EXCEPT !.user = to_user],
                                "tm_copy", "tm_wait")
    /\ UNCHANGED <<now, dbVars, user_data, user_message_time_queues, arrivals, idVars,
                   ghostVars, callVars>>

TmWait(s) ==
    /\ h[s].pc = "tm_wait"
    /\ Wake(s, "tm_copy")
    /\ UNCHANGED <<now, dbVars, user_data, topic_data, user_message_time_queues, arrivals,
                   idVars, ghostVars, callVars>>

\* except telegram.error.Forbidden: the failure is told to the staff thread and
\* _forward_topic_message_to_user returns.
TmForbiddenRecorded(s) ==
    /\ gw' = gw \cup {Call("send_message_blocked", h[s].user, h[s].msg, h[s].topic, 0)}
    /\ h' = [h EXCEPT ![s].pc = "tm_insmsg", ![s].out_msg = 0]
    /\ UNCHANGED lockHeld

TmForbidden(s) ==
    /\ gw' = gw \cup {Call("send_message_blocked", h[s].user, h[s].msg, h[s].topic, 0)}
    /\ Release(s)
    /\ Finish(s)

\* topic_msg_to_private: copy_message, or Forbidden when the user blocked the bot.
TmCopy(s) ==
    /\ h[s].pc = "tm_copy"
    /\ \E outcome \in {"ok", "forbidden"} :
          IF outcome = "ok"
          THEN /\ h' = [h EXCEPT ![s].pc = "tm_insmsg", ![s].out_msg = nextPriv[h[s].user]]
               /\ nextPriv' = [nextPriv EXCEPT ![h[s].user] = @ + 1]
               /\ gw' = gw \cup {Call("copy_to_private", h[s].user, h[s].msg, h[s].topic,
                                       nextPriv[h[s].user])}
               /\ UNCHANGED lockHeld
          ELSE /\ TmForbidden(s)
               /\ UNCHANGED nextPriv
    /\ UNCHANGED <<now, dbVars, cacheVars, lockWaiters, arrivals, nextGroupId, ghostVars,
                   flowVars>>

TmInsertMessage(s) ==
    /\ h[s].pc = "tm_insmsg"
    /\ messages' = insert_message(messages,
                        MessageRow(h[s].user, h[s].out_msg, h[s].msg, FALSE, now))
    /\ Release(s)
    /\ Finish(s)
    /\ UNCHANGED <<now, verify_users, block_users, users, cacheVars, lockWaiters,
                   arrivals, idVars, ghostVars, callVars>>

\* ------------------------------------------------------------------ /ban
ArriveCommand(s, kind, t, arg) ==
    /\ FreeSlot(s)
    /\ arrivals' = arrivals + 1
    /\ h' = [h EXCEPT ![s] = [Idle EXCEPT !.kind = kind, !.pc = kind, !.topic = t,
                                          !.arg = arg, !.msg = nextGroupId]]
    /\ nextGroupId' = nextGroupId + 1
    /\ UNCHANGED <<now, dbVars, cacheVars, lockVars, nextPriv, ghostVars, callVars>>

BanSelectUser(s) ==
    /\ h[s].pc = "ban"
    /\ LET u == select_user_by_topic(users, h[s].topic)
       IN h' = [h EXCEPT ![s] = IF u = 0 THEN Idle
                                ELSE [h[s] EXCEPT !.pc = "ban_pin", !.user = u]]
    /\ UNCHANGED <<now, dbVars, cacheVars, lockVars, arrivals, idVars, ghostVars, callVars>>

\* The announcement is sent and pinned; only then is the user's lock taken.
BanPin(s) ==
    /\ h[s].pc = "ban_pin"
    /\ nextGroupId' = nextGroupId + 1
    /\ gw' = gw \cup {Call("pin", h[s].user, h[s].msg, h[s].topic, nextGroupId)}
    /\ AcquireOrWait(s, h[s].user, [h[s] EXCEPT !.pinned = nextGroupId],
                     "ban_ins", "ban_wait")
    /\ UNCHANGED <<now, dbVars, user_data, topic_data, user_message_time_queues, arrivals,
                   nextPriv, ghostVars, flowVars>>

BanWait(s) ==
    /\ h[s].pc = "ban_wait"
    /\ Wake(s, "ban_ins")
    /\ UNCHANGED <<now, dbVars, user_data, topic_data, user_message_time_queues, arrivals,
                   idVars, ghostVars, callVars>>

\* Variant: /ban also removes the user's row.
BanInsertDropsUser(s) ==
    /\ h[s].pc = "ban_ins"
    /\ block_users' = insert_block(block_users, h[s].user, h[s].pinned)
    /\ users' = [users EXCEPT ![h[s].user] = 0]
    /\ user_data' = [user_data EXCEPT ![h[s].user].block = True]
    /\ Release(s)
    /\ Finish(s)
    /\ UNCHANGED <<now, verify_users, messages, user_locks, topic_data,
                   user_message_time_queues, lockWaiters, arrivals, idVars, ghostVars,
                   callVars>>

BanInsert(s) ==
    /\ h[s].pc = "ban_ins"
    /\ block_users' = insert_block(block_users, h[s].user, h[s].pinned)
    /\ user_data' = [user_data EXCEPT ![h[s].user].block = True]
    /\ Release(s)
    /\ Finish(s)
    /\ UNCHANGED <<now, verify_users, users, messages, user_locks, topic_data,
                   user_message_time_queues, lockWaiters, arrivals, idVars, ghostVars,
                   callVars>>

\* ---------------------------------------------------------------- /unban
UnbanSelectUser(s) ==
    /\ h[s].pc = "unban"
    /\ LET u == select_user_by_topic(users, h[s].topic)
       IN h' = [h EXCEPT ![s] = IF u = 0 THEN Idle
                                ELSE [h[s] EXCEPT !.pc = "unban_selblock", !.user = u]]
    /\ UNCHANGED <<now, dbVars, cacheVars, lockVars, arrivals, idVars, ghostVars, callVars>>

UnbanSelectBlock(s) ==
    /\ h[s].pc = "unban_selblock"
    /\ LET block_data == select_block_raw(block_users, h[s].user)
           rec == [h[s] EXCEPT !.block_data = block_data]
       IN IF ~block_data.present
          THEN /\ Finish(s)
               /\ UNCHANGED <<user_locks, lockVars>>
          ELSE IF block_data.pinned_msg_id # 0
          THEN /\ h' = [h EXCEPT ![s] = [rec EXCEPT !.pc = "unban_delpin"]]
               /\ UNCHANGED <<user_locks, lockVars>>
          ELSE AcquireOrWait(s, h[s].user, rec, "unban_del", "unban_wait")
    /\ UNCHANGED <<now, dbVars, user_data, topic_data, user_message_time_queues, arrivals,
                   idVars, ghostVars, callVars>>

\* The pinned announcement is deleted before the user's lock is taken.
UnbanDeletePinned(s) ==
    /\ h[s].pc = "unban_delpin"
    /\ gw' = gw \cup {Call("delete_pinned", h[s].user, h[s].block_data.pinned_msg_id,
                            h[s].topic, 0)}
    /\ AcquireOrWait(s, h[s].user, h[s], "unban_del", "unban_wait")
    /\ UNCHANGED <<now, dbVars, user_data, topic_data, user_message_time_queues, arrivals,
                   idVars, ghostVars, flowVars>>

UnbanWait(s) ==
    /\ h[s].pc = "unban_wait"
    /\ Wake(s, "unban_del")
    /\ UNCHANGED <<now, dbVars, user_data, topic_data, user_message_time_queues, arrivals,
                   idVars, ghostVars, callVars>>

UnbanDelete(s) ==
    /\ h[s].pc = "unban_del"
    /\ block_users' = delete_block(block_users, h[s].block_data)
    /\ user_data' = [user_data EXCEPT ![h[s].user].block = False]
    /\ struck' = [u \in Users |-> struck[u] /\ block_users'[u].present]
    /\ sinceUnban' = [u \in Users |-> IF struck[u] /\ ~block_users'[u].present
                                      THEN 0 ELSE sinceUnban[u]]
    /\ Release(s)
    /\ Finish(s)
    /\ UNCHANGED <<now, verify_users, users, messages, user_locks, topic_data,
                   user_message_time_queues, lockWaiters, arrivals, idVars, passed,
                   relays, lastNotice, wrongSubs, callVars>>

\* --------------------------------------------------------------- /verify
VerifySelectUser(s) ==
    /\ h[s].pc = "verify"
    /\ LET u == select_user_by_topic(users, h[s].topic)
       IN IF u = 0
          THEN /\ Finish(s)
               /\ UNCHANGED <<user_data, passed>>
          ELSE /\ h' = [h EXCEPT ![s].pc = "verify_upd", ![s].user = u]
               /\ user_data' = [user_data EXCEPT ![u].verify = Flag(h[s].arg)]
               /\ passed' = [passed EXCEPT ![u] = @ \/ h[s].arg]
    /\ UNCHANGED <<now, dbVars, user_locks, topic_data, user_message_time_queues, lockVars,
                   arrivals, idVars, relays, lastNotice, wrongSubs, struck, sinceUnban, callVars>>

\* update_verified, then the user is told (the send ends the handler whether
\* or not the gateway accepts it).
VerifyUpdate(s) ==
    /\ h[s].pc = "verify_upd"
    /\ verify_users' = update_verified(verify_users, h[s].user, h[s].arg)
    /\ gw' = gw \cup {Call("send_message_verify", h[s].user, h[s].msg,
                           IF h[s].arg THEN 1 ELSE 0, 0)}
    /\ Finish(s)
    /\ UNCHANGED <<now, block_users, users, messages, cacheVars, lockVars, arrivals,
                   idVars, ghostVars, flowVars>>

\* context.args of /verify, and args[0].strip().lower() for the arguments used.
VerifyArgs == { << >>, <<"true">>, <<"false">>, <<" True">>, <<"FALSE ">>, <<"yes">>,
                <<"true", "false">> }

StripLower(a) ==
    CASE a = " True" -> "true"
      [] a = "FALSE " -> "false"
      [] OTHER -> a

str_bool_map == [a \in {"true", "false"} |-> a = "true"]

\* /verify with its raw arguments: the count of arguments is checked first, the
\* thread's user is selected, then the argument is looked up in str_bool_map.
ArriveVerify(s, t, args) ==
    /\ FreeSlot(s)
    /\ arrivals' = arrivals + 1
    /\ nextGroupId' = nextGroupId + 1
    /\ h' = [h EXCEPT ![s] =
                IF Len(args) # 1
                THEN Idle
                ELSE LET bool_arg == StripLower(args[1])
                     IN IF bool_arg \in DOMAIN str_bool_map
                        THEN [Idle EXCEPT !.kind = "verify", !.pc = "verify", !.topic = t,
                                          !.arg = str_bool_map[bool_arg],
                                          !.reason = args[1], !.msg = nextGroupId]
                        ELSE [Idle EXCEPT !.kind = "verify", !.pc = "verify_usage",
                                          !.topic = t, !.reason = args[1],
                                          !.msg = nextGroupId]]
    /\ UNCHANGED <<now, dbVars, cacheVars, lockVars, nextPriv, ghostVars, callVars>>

\* An argument outside str_bool_map: select_user, then the usage reply.
VerifyUsage(s) ==
    /\ h[s].pc = "verify_usage"
    /\ Finish(s)
    /\ UNCHANGED <<now, dbVars, cacheVars, lockVars, arrivals, idVars, ghostVars, callVars>>

\* ------------------------------------------------------------ environment
Tick(limit) ==
    /\ now < limit
    /\ now' = now + 1
    /\ UNCHANGED <<dbVars, cacheVars, lockVars, h, arrivals, idVars, ghostVars, callVars>>

\* TGBot._cleanup_cache_job: clear_topic_all, then clear_user_all.
CleanupCacheJob ==
    /\ topic_data' = {}
    /\ user_data' = [u \in Users |-> EmptyUserData]
    /\ user_locks' = clear_user_all_locks(user_locks)
    /\ wrongSubs' = [u \in Users |-> -1]
    /\ UNCHANGED <<now, dbVars, user_message_time_queues, lockVars, h, arrivals, idVars,
                   passed, relays, lastNotice, struck, sinceUnban, callVars>>

\* A restart between updates: a new DataCache, the repository as it was.
Restart ==
    /\ \A s \in Slots : h[s].kind = "idle"
    /\ user_locks' = [u \in Users |-> 0]
    /\ user_data' = [u \in Users |-> EmptyUserData]
    /\ topic_data' = {}
    /\ user_message_time_queues' = [u \in Users |-> << >>]
    /\ wrongSubs' = [u \in Users |-> -1]
    /\ UNCHANGED <<now, dbVars, lockVars, h, arrivals, idVars, passed, relays, lastNotice,
                   struck, sinceUnban, callVars>>

PrivateStep(s) ==
    \/ HpmStart(s) \/ HpmSelectVerified(s)
    \/ MtWait(s) \/ MtSelectBlock(s) \/ MtInsertBlock(s) \/ MtSelectUser(s)
    \/ MtSelectUserAgain(s) \/ MtSpam(s) \/ MtSend(s) \/ MtInsertMessage(s)
    \/ CtSelect(s) \/ CtCreate(s) \/ CtInsert(s)
    \/ StartBegin(s) \/ GvWait(s) \/ GvSelect(s) \/ ScPersist(s)
    \/ VaSelect(s) \/ VaWait(s) \/ VaUpdateVerified(s) \/ VaInsertBlock(s)

StaffStep(s) ==
    \/ TmStart(s) \/ TmSelectUser(s) \/ TmWait(s) \/ TmCopy(s) \/ TmInsertMessage(s)
    \/ BanSelectUser(s) \/ BanPin(s) \/ BanWait(s) \/ BanInsert(s)
    \/ UnbanSelectUser(s) \/ UnbanSelectBlock(s) \/ UnbanDeletePinned(s)
    \/ UnbanWait(s) \/ UnbanDelete(s)
    \/ VerifySelectUser(s) \/ VerifyUpdate(s)

\* The threads of the staff group a staff update can come from.
Threads == ({ users[u] : u \in Users } \ {0}) \cup {SpamTopic}

Next ==
    \/ /\ arrivals < MaxUpdates
       /\ \E s \in Slots :
             \/ \E u \in RaceUsers, text \in RaceTexts : ArrivePrivate(s, u, text)
             \/ \E u \in RaceUsers : ArriveStart(s, u)
             \/ \E t \in Threads : ArriveTopicMessage(s, t)
             \/ \E t \in Threads : ArriveCommand(s, "ban", t, FALSE)
             \/ \E t \in Threads : ArriveCommand(s, "unban", t, FALSE)
             \/ \E t \in Threads, arg \in BOOLEAN : ArriveCommand(s, "verify", t, arg)
    \/ \E s \in Slots : PrivateStep(s)
    \/ \E s \in Slots : StaffStep(s)
    \/ Tick(MaxTime)
    \/ CleanupCacheJob
    \/ Restart

Spec == Init /\ [][Next]_vars

\* ------------------------------------------------------------ one at a time
\* SpecSeq: the private messages and /start commands of one user who is not yet
\* verified are handled one after another (no handler ever waits for a lock, and
\* the flood limit is out of reach), with more updates, more texts and more time.
SeqUser == 1

InitSeq ==
    \E st \in [Users -> {"new", "pending"}] :
        /\ \A u \in Users \ {SeqUser} : st[u] = "new"
        /\ InitFrom(st, FloodWindow)
        /\ txn = [c \in Callers |-> NoTxn]
        /\ pool = 0

AllIdle == \A s \in Slots : h[s].kind = "idle"

SeqStep(s) ==
    \/ HpmStart(s) \/ HpmSelectVerified(s)
    \/ MtSelectBlock(s) \/ MtSelectUser(s)
    \/ MtSelectUserAgain(s) \/ MtSpam(s) \/ MtSend(s) \/ MtInsertMessage(s)
    \/ CtSelect(s) \/ CtCreate(s) \/ CtInsert(s)
    \/ StartBegin(s) \/ GvSelect(s) \/ ScPersist(s)
    \/ VaSelect(s) \/ VaUpdateVerified(s) \/ VaInsertBlock(s)

NextSeq ==
    \/ /\ AllIdle
       /\ arrivals < MaxSeqUpdates
       /\ \E s \in Slots :
             \/ \E text \in TextInputs : ArrivePrivate(s, SeqUser, text)
             \/ ArriveStart(s, SeqUser)
    \/ \E s \in Slots : SeqStep(s)
    \/ Tick(MaxSeqTime)
    \/ AllIdle /\ CleanupCacheJob
    \/ Restart

SpecSeq == InitSeq /\ [][NextSeq]_vars


\* ------------------------------------------------------ flood_message alone
\* SpecFlood: DataCache.flood_message called directly, for any user at any time,
\* with a window fixed when the behaviour starts.
Windows == 0..MaxWindow

InitFlood ==
    \E w \in Windows :
        /\ InitFrom([u \in Users |-> "new"], w)
        /\ txn = [c \in Callers |-> NoTxn]
        /\ pool = 0

FloodCall(u) ==
    /\ calls < MaxCalls
    /\ calls' = calls + 1
    /\ LET fm == flood_message(user_message_time_queues[u], now, window)
       IN /\ user_message_time_queues' = [user_message_time_queues EXCEPT ![u] = fm.queue]
          /\ floodHist' = [floodHist EXCEPT ![u] = IF window > 0 THEN Append(@, now) ELSE @]
          /\ floodRet' = [floodRet EXCEPT ![u] = fm.count]
    /\ UNCHANGED <<now, dbVars, user_locks, user_data, topic_data, lockVars, h, arrivals,
                   idVars, ghostVars, window, txn, pool, gw, sp>>

NextFlood ==
    \/ \E u \in Users : FloodCall(u)
    \/ Tick(MaxCallTime)

SpecFlood == InitFlood /\ [][NextFlood]_vars

\* ------------------------------------------------------- a burst of messages
\* SpecFlood11: one member sends messages without text, handled one after
\* another, and the gateway delivers every copy.
FloodUser == 1

InitFlood11 ==
    /\ InitFrom([u \in Users |-> IF u = FloodUser THEN "member" ELSE "new"], FloodWindow)
    /\ txn = [c \in Callers |-> NoTxn]
    /\ pool = 0

NextFlood11 ==
    \/ /\ AllIdle
       /\ arrivals < MaxFloodUpdates
       /\ \E s \in Slots : ArrivePrivate(s, FloodUser, NoText)
    \/ \E s \in Slots :
          \/ HpmStart(s) \/ HpmSelectVerified(s)
          \/ MtSelectBlock(s) \/ MtInsertBlock(s) \/ MtSelectUser(s)
          \/ MtSend(s) /\ h'[s].pc = "mt_insmsg"
          \/ MtInsertMessage(s)
    \/ Tick(MaxFloodTime)

SpecFlood11 == InitFlood11 /\ [][NextFlood11]_vars

\* ---------------------------------------------------- insert_message in steps
\* SpecInsert: NumCallers calls of UFRepository.insert_message, each in its own
\* session and transaction, interleaved statement by statement.  The engine's
\* pool has one connection (SQLite) or one for every caller (MySQL, PostgreSQL).
\* An INSERT that collides with a row another transaction has flushed but not
\* committed waits for that transaction to end; a SELECT sees committed rows.
PoolSizes == {1, NumCallers}
MsgIds == 1..MaxMsgId

InitInsert ==
    /\ InitFrom([u \in Users |-> "new"], FloodWindow)
    /\ \E p \in PoolSizes : pool = p
    /\ \E args \in [Callers -> Users \X MsgIds \X MsgIds] :
          txn = [c \in Callers |->
                    [NoTxn EXCEPT !.pc = "begin",
                                  !.row = [userid |-> args[c][1],
                                           private_message_id |-> args[c][2],
                                           topic_message_id |-> args[c][3]]]]

\* The row a call stores.
TxRow(c) ==
    MessageRow(txn[c].row.userid, txn[c].row.private_message_id,
               txn[c].row.topic_message_id, FALSE, now)

\* Rows flushed by the other transactions and not yet committed.
Uncommitted(c) == { TxRow(d) : d \in { e \in Callers \ {c} : txn[e].pending } }

TxUnchanged ==
    UNCHANGED <<now, verify_users, block_users, users, cacheVars, lockVars, h, arrivals,
                idVars, ghostVars, window, floodHist, floodRet, calls, gw, sp>>

\* _on_session: the session takes a connection from the pool and begins.
TxBegin(c) ==
    /\ txn[c].pc = "begin"
    /\ pool > 0
    /\ pool' = pool - 1
    /\ txn' = [txn EXCEPT ![c].pc = "insert"]
    /\ UNCHANGED messages
    /\ TxUnchanged

\* _add_and_flush_nested_ignore_integrity: SAVEPOINT, INSERT, and on an
\* IntegrityError ROLLBACK TO SAVEPOINT and expunge.
TxInsert(c) ==
    /\ txn[c].pc = "insert"
    /\ ~MessageConflict(Uncommitted(c), TxRow(c))
    /\ txn' = IF MessageConflict(messages, TxRow(c))
              THEN [txn EXCEPT ![c].pc = "select_topic"]
              ELSE [txn EXCEPT ![c].pc = "commit", ![c].pending = TRUE]
    /\ UNCHANGED <<messages, pool>>
    /\ TxUnchanged

\* stmt_by_topic
TxSelectTopic(c) ==
    /\ txn[c].pc = "select_topic"
    /\ txn' = IF \E r \in messages : r.topic_message_id = txn[c].row.topic_message_id
              THEN [txn EXCEPT ![c].pc = "commit", ![c].found = "topic"]
              ELSE [txn EXCEPT ![c].pc = "select_private"]
    /\ UNCHANGED <<messages, pool>>
    /\ TxUnchanged

\* stmt_by_private, else RuntimeError: the transaction is rolled back.
TxSelectPrivate(c) ==
    /\ txn[c].pc = "select_private"
    /\ IF \E r \in messages :
             /\ r.userid = txn[c].row.userid
             /\ r.private_message_id = txn[c].row.private_message_id
       THEN /\ txn' = [txn EXCEPT ![c].pc = "commit", ![c].found = "private"]
            /\ pool' = pool
       ELSE /\ txn' = [txn EXCEPT ![c].pc = "done", ![c].ret = "raised"]
            /\ pool' = pool + 1
    /\ UNCHANGED messages
    /\ TxUnchanged

\* Leaving _on_session: COMMIT, the connection goes back to the pool.
TxCommit(c) ==
    /\ txn[c].pc = "commit"
    /\ messages' = IF txn[c].pending
                   THEN messages \cup {[TxRow(c) EXCEPT !.id = NextMessageId(messages)]}
                   ELSE messages
    /\ txn' = [txn EXCEPT ![c].pc = "done", ![c].pending = FALSE, ![c].ret = "returned"]
    /\ pool' = pool + 1
    /\ TxUnchanged

NextInsert ==
    \E c \in Callers :
        \/ TxBegin(c) \/ TxInsert(c) \/ TxSelectTopic(c) \/ TxSelectPrivate(c)
        \/ TxCommit(c)

SpecInsert == InitInsert /\ [][NextInsert]_vars

\* --------------------------------------------- the mapping table over time
\* SpecMap: insert_message transactions (with any arguments, again and again),
\* delete_message and the daily delete_message_on_days(RetentionDays), with the
\* clock counting days.
InitMap ==
    /\ InitFrom([u \in Users |-> "new"], FloodWindow)
    /\ \E p \in PoolSizes : pool = p
    /\ txn = [c \in Callers |-> NoTxn]

\* A caller enters insert_message.
TxCall(c, u, pm, tm) ==
    /\ txn[c].pc \in {"none", "done"}
    /\ calls < MaxMapCalls
    /\ calls' = calls + 1
    /\ txn' = [txn EXCEPT ![c] = [NoTxn EXCEPT !.pc = "begin",
                                               !.row = [userid |-> u,
                                                        private_message_id |-> pm,
                                                        topic_message_id |-> tm]]]
    /\ UNCHANGED <<now, dbVars, cacheVars, lockVars, h, arrivals, idVars, ghostVars,
                   window, floodHist, floodRet, pool, gw, sp>>

\* delete_message: session.delete of a row read earlier, DELETE ... WHERE id = :id,
\* in a transaction of its own.
delete_message(rows, row) == { r \in rows : r.id # row.id }

DeleteMessage(row) ==
    /\ pool > 0
    /\ messages' = delete_message(messages, row)
    /\ UNCHANGED <<now, verify_users, block_users, users, cacheVars, lockVars, h, arrivals,
                   idVars, ghostVars, callVars>>

\* delete_message_on_days: DELETE ... WHERE time < now - days
delete_message_on_days(rows, days, t) == { r \in rows : ~(r.time < t - days) }

CleanupDbJob ==
    /\ pool > 0
    /\ messages' = delete_message_on_days(messages, RetentionDays, now)
    /\ UNCHANGED <<now, verify_users, block_users, users, cacheVars, lockVars, h, arrivals,
                   idVars, ghostVars, callVars>>

NextMap ==
    \/ \E c \in Callers :
          \/ \E u \in Users, pm \in MsgIds, tm \in MsgIds : TxCall(c, u, pm, tm)
          \/ TxBegin(c) \/ TxInsert(c) \/ TxSelectTopic(c) \/ TxSelectPrivate(c)
          \/ TxCommit(c)
    \/ \E row \in messages : DeleteMessage(row)
    \/ CleanupDbJob
    \/ Tick(MaxMapTime)

SpecMap == InitMap /\ [][NextMap]_vars

\* ------------------------------------------------- one user's topic
\* SpecTopic: the private messages of one challenged user, each carrying the
\* right code, handled concurrently, with the daily cache clean-up running at
\* any moment.
TopicUser == 1

InitTopic ==
    /\ InitFrom([u \in Users |-> IF u = TopicUser THEN "pending" ELSE "new"], FloodWindow)
    /\ txn = [c \in Callers |-> NoTxn]
    /\ pool = 0

NextTopic ==
    \/ /\ arrivals < MaxTopicUpdates
       /\ \E s \in Slots : ArrivePrivate(s, TopicUser, <<"a", "B">>)
    \/ \E s \in Slots :
          \/ HpmStart(s) \/ HpmSelectVerified(s)
          \/ MtWait(s) \/ MtSelectBlock(s) \/ MtSelectUser(s) \/ MtSelectUserAgain(s)
          \/ MtSpam(s) \/ MtSend(s) \/ MtInsertMessage(s)
          \/ CtSelect(s) \/ CtCreate(s) \/ CtInsert(s)
          \/ GvWait(s) \/ GvSelect(s)
          \/ VaSelect(s) \/ VaWait(s) \/ VaUpdateVerified(s)
    \/ CleanupCacheJob

SpecTopic == InitTopic /\ [][NextTopic]_vars

\* ------------------------------------------------------ staff commands
\* SpecStaff: users verified earlier, blocked or not, whose threads get /ban,
\* /unban and /verify while they send messages without text; all handled
\* concurrently.
InitStaff ==
    /\ \E st \in [Users -> {"member", "banned"}] : InitFrom(st, FloodWindow)
    /\ txn = [c \in Callers |-> NoTxn]
    /\ pool = 0

NextStaff ==
    \/ /\ arrivals < MaxStaffUpdates
       /\ \E s \in Slots :
             \/ \E u \in Users : ArrivePrivate(s, u, NoText)
             \/ \E t \in Threads : ArriveCommand(s, "ban", t, FALSE)
             \/ \E t \in Threads : ArriveCommand(s, "unban", t, FALSE)
             \/ \E t \in Threads, args \in VerifyArgs : ArriveVerify(s, t, args)
    \/ \E s \in Slots :
          \/ HpmStart(s) \/ HpmSelectVerified(s)
          \/ MtWait(s) \/ MtSelectBlock(s) \/ MtSelectUser(s) \/ MtSend(s)
          \/ MtInsertMessage(s)
          \/ GvWait(s) \/ GvSelect(s)
          \/ BanSelectUser(s) \/ BanPin(s) \/ BanWait(s) \/ BanInsert(s)
          \/ UnbanSelectUser(s) \/ UnbanSelectBlock(s) \/ UnbanDeletePinned(s)
          \/ UnbanWait(s) \/ UnbanDelete(s)
          \/ VerifySelectUser(s) \/ VerifyUpdate(s) \/ VerifyUsage(s)

SpecStaff == InitStaff /\ [][NextStaff]_vars

\* SpecTimeout: private messages of users with a topic, handled one at a time;
\* each handler carries the tables, the sender's session cache and the sender's
\* flood window as its message found them.
InitTimeout ==
    /\ \E st \in [Users -> {"member", "flooding"}] : InitFrom(st, FloodWindow)
    /\ txn = [c \in Callers |-> NoTxn]
    /\ pool = 0

ArrivePrivateSnap(s, u, text) ==
    /\ FreeSlot(s)
    /\ arrivals' = arrivals + 1
    /\ h' = [h EXCEPT ![s] =
                [Idle EXCEPT !.kind = "pm", !.pc = "hpm", !.user = u, !.text = text,
                             !.msg = nextPriv[u],
                             !.snap = [taken |-> TRUE, db |-> dbVars,
                                       data |-> user_data[u],
                                       queue |-> user_message_time_queues[u]]]]
    /\ nextPriv' = [nextPriv EXCEPT ![u] = @ + 1]
    /\ UNCHANGED <<now, dbVars, cacheVars, lockVars, nextGroupId, ghostVars, callVars>>

NextTimeout ==
    \/ /\ AllIdle
       /\ arrivals < MaxTimeoutUpdates
       /\ \E s \in Slots, u \in Users, text \in RaceTexts : ArrivePrivateSnap(s, u, text)
    \/ \E s \in Slots :
          \/ HpmStart(s) \/ HpmSelectVerified(s)
          \/ MtSelectBlock(s) \/ MtInsertBlock(s) \/ MtSelectUser(s)
          \/ MtSpam(s) \/ MtSend(s) \/ MtInsertMessage(s)
    \/ Tick(MaxTimeoutTime)

SpecTimeout == InitTimeout /\ [][NextTimeout]_vars

\* SpecOrder: private messages of verified users with a thread, the session
\* cache empty when the behaviour starts.  The event loop starts the handlers
\* of a user's updates in the order of their arrival: a handler begins only
\* when no earlier update of that user still waits to begin.
StartsInOrder(s) ==
    \A t \in Slots \ {s} :
        (h[t].pc = "hpm" /\ h[t].user = h[s].user) => h[t].msg > h[s].msg

InitOrder ==
    /\ InitFrom([u \in Users |-> "member"], FloodWindow)
    /\ txn = [c \in Callers |-> NoTxn]
    /\ pool = 0

NextOrder ==
    \/ /\ arrivals < MaxOrderUpdates
       /\ \E s \in Slots, u \in Users, text \in RaceTexts : ArrivePrivate(s, u, text)
    \/ \E s \in Slots :
          \/ StartsInOrder(s) /\ HpmStart(s)
          \/ HpmSelectVerified(s)
          \/ MtWait(s) \/ MtSelectBlock(s) \/ MtSelectUser(s) \/ MtSpam(s)
          \/ MtSend(s)
          \/ MtInsertMessage(s)

SpecOrder == InitOrder /\ [][NextOrder]_vars

\* SpecRetry: one user with a thread whom the staff sets unverified with
\* /verify false and unbans with /unban, and who answers the challenge with a
\* wrong text each time; the updates are handled one at a time.
InitRetry ==
    /\ InitFrom([u \in Users |-> IF u = SeqUser THEN "member" ELSE "new"], FloodWindow)
    /\ txn = [c \in Callers |-> NoTxn]
    /\ pool = 0

NextRetry ==
    \/ /\ AllIdle
       /\ arrivals < MaxRetryUpdates
       /\ \E s \in Slots :
             \/ ArrivePrivate(s, SeqUser, <<"b", "b">>)
             \/ \E t \in Threads \ {SpamTopic} : ArriveCommand(s, "verify", t, FALSE)
             \/ \E t \in Threads \ {SpamTopic} : ArriveCommand(s, "unban", t, FALSE)
    \/ \E s \in Slots :
          \/ HpmStart(s) \/ HpmSelectVerified(s)
          \/ MtSelectBlock(s) \/ MtSelectUser(s) \/ MtSpam(s) \/ MtSend(s)
          \/ MtInsertMessage(s)
          \/ GvSelect(s) \/ ScPersist(s)
          \/ VaSelect(s) \/ VaInsertBlock(s)
          \/ UnbanSelectUser(s) \/ UnbanSelectBlock(s) \/ UnbanDelete(s)
          \/ VerifySelectUser(s) \/ VerifyUpdate(s)
    \/ Tick(MaxRetryTime)

SpecRetry == InitRetry /\ [][NextRetry]_vars

\* SpecUnban: /ban and /unban alone, more of them, in the threads of users who
\* all hold a BlockRecord when the behaviour starts.
InitUnban ==
    /\ InitFrom([u \in Users |-> "banned"], FloodWindow)
    /\ txn = [c \in Callers |-> NoTxn]
    /\ pool = 0

NextUnban ==
    \/ /\ arrivals < MaxUnbanUpdates
       /\ \E s \in Slots, t \in Threads, kind \in {"ban", "unban"} :
             ArriveCommand(s, kind, t, FALSE)
    \/ \E s \in Slots :
          \/ BanSelectUser(s) \/ BanPin(s) \/ BanWait(s) \/ BanInsert(s)
          \/ UnbanSelectUser(s) \/ UnbanSelectBlock(s) \/ UnbanDeletePinned(s)
          \/ UnbanWait(s) \/ UnbanDelete(s)

SpecUnban == InitUnban /\ [][NextUnban]_vars

\* ------------------------------------------ edits, reactions and /d
\* The chats an update can come from: a user's private chat, the staff group,
\* or any other chat the bot is in.
Chats == {"private", "group", "other"}
PrivateSide == 0
GroupSide == 1

\* UFRepository.select_message
select_message(rows, msg_id, topic_mode, userid) ==
    LET found == IF topic_mode
                 THEN { r \in rows : r.topic_message_id = msg_id }
                 ELSE { r \in rows : r.userid = userid /\ r.private_message_id = msg_id }
    IN IF found = {} THEN NoMessage ELSE CHOOSE r \in found : TRUE

\* The bot's own copies in a private chat, and the messages already deleted.
BotCopy(u, m) == \E c \in gw : c.op = "copy_to_private" /\ c.user = u /\ c.out = m
Deleted(side, u, m) ==
    \E c \in gw : c.op = "delete_message" /\ c.arg = side /\ c.user = u /\ c.msg = m
PrivateIds(u) == { m \in 1..(nextPriv[u] - 1) : ~Deleted(PrivateSide, u, m) }
GroupIds == { m \in (SpamTopic + 1)..(nextGroupId - 1) : ~Deleted(GroupSide, 0, m) }

ArriveUpdate(s, rec) ==
    /\ FreeSlot(s)
    /\ arrivals' = arrivals + 1
    /\ h' = [h EXCEPT ![s] = [rec EXCEPT !.update_id = arrivals + 1]]
    /\ UNCHANGED <<now, dbVars, cacheVars, lockVars, idVars, ghostVars, callVars>>

\* Leaving `async with lock` by an exception or a return.
Leave(s) == Release(s) /\ Finish(s)

\* ------------------------------------------ handle_private_edited_message
\* The user edits one of their own messages; an edit without text is dropped.
ArrivePrivateEdit(s, u, m, text) ==
    /\ m \in PrivateIds(u)
    /\ ~BotCopy(u, m)
    /\ ArriveUpdate(s, [Idle EXCEPT !.kind = "pe", !.pc = "pe", !.chat = "private",
                                    !.user = u, !.msg = m, !.text = text])

PeSelectMessage(s) ==
    /\ h[s].pc = "pe"
    /\ IF h[s].text = NoText
       THEN Finish(s)
       ELSE h' = [h EXCEPT ![s].pc = "pe_seluser",
                           ![s].msg_data = select_message(messages, h[s].msg, FALSE,
                                                          h[s].user)]
    /\ UNCHANGED <<now, dbVars, cacheVars, lockVars, arrivals, idVars, ghostVars, callVars>>

PeSelectUser(s) ==
    /\ h[s].pc = "pe_seluser"
    /\ LET topic == select_user_by_userid(users, h[s].user)
       IN IF h[s].msg_data = NoMessage \/ topic = 0
          THEN /\ Finish(s)
               /\ UNCHANGED <<user_locks, lockVars>>
          ELSE AcquireOrWait(s, h[s].user, [h[s] EXCEPT !.topic_id = topic],
                             "pe_spam", "pe_wait")
    /\ UNCHANGED <<now, dbVars, user_data, topic_data, user_message_time_queues, arrivals,
                   idVars, ghostVars, callVars>>

PeWait(s) ==
    /\ h[s].pc = "pe_wait"
    /\ Wake(s, "pe_spam")
    /\ UNCHANGED <<now, dbVars, user_data, topic_data, user_message_time_queues, arrivals,
                   idVars, ghostVars, callVars>>

\* What follows the verdict: `if is_spam:` forwards and rejects, else the edit.
PeAfterVerdictEdit(is_spam) == "pe_edit"
PeAfterVerdict(is_spam) == IF is_spam THEN "pe_forward" ELSE "pe_edit"

\* _check_spam_with_typing returns a verdict or raises; the verdict given for
\* this update is kept in the log.
PeSpam(s) ==
    /\ h[s].pc = "pe_spam"
    /\ \E outcome \in {"spam", "ham", "raised"} :
          IF outcome = "raised"
          THEN /\ Leave(s)
               /\ gw' = gw
          ELSE /\ h' = [h EXCEPT ![s].is_spam = (outcome = "spam"),
                                 ![s].pc = PeAfterVerdict(outcome = "spam")]
               /\ gw' = gw \cup {CallText("check_spam", h[s].user, h[s].msg,
                                          IF outcome = "spam" THEN 1 ELSE 0,
                                          h[s].update_id, h[s].text)}
               /\ UNCHANGED lockHeld
    /\ UNCHANGED <<now, dbVars, cacheVars, lockWaiters, arrivals, idVars, ghostVars,
                   flowVars>>

\* forward_on_spam_topic for the edited message.
PeForward(s) ==
    /\ h[s].pc = "pe_forward"
    /\ \E ok \in BOOLEAN :
          IF ok
          THEN /\ gw' = gw \cup {CallText("forward_edited", h[s].user, h[s].msg, SpamTopic,
                                          h[s].update_id, h[s].text)}
               /\ nextGroupId' = nextGroupId + 1
               /\ h' = [h EXCEPT ![s].pc = "pe_reject"]
               /\ UNCHANGED lockHeld
          ELSE /\ Leave(s)
               /\ UNCHANGED <<gw, nextGroupId>>
    /\ UNCHANGED <<now, dbVars, cacheVars, lockWaiters, arrivals, nextPriv, ghostVars,
                   flowVars>>

\* The rejection told to the user, in reply to the edited message.
PeReject(s) ==
    /\ h[s].pc = "pe_reject"
    /\ \E ok \in BOOLEAN :
          /\ gw' = IF ok THEN gw \cup {CallText("send_rejected", h[s].user, h[s].msg, 0,
                                                h[s].update_id, h[s].text)}
                         ELSE gw
          /\ nextPriv' = IF ok THEN [nextPriv EXCEPT ![h[s].user] = @ + 1] ELSE nextPriv
    /\ Leave(s)
    /\ UNCHANGED <<now, dbVars, cacheVars, lockWaiters, arrivals, nextGroupId, ghostVars,
                   flowVars>>

\* edit_message_text on the message the mapping row names in the group.
PeEdit(s) ==
    /\ h[s].pc = "pe_edit"
    /\ \E ok \in BOOLEAN :
          gw' = IF ok THEN gw \cup {CallText("edit_message_text", 0,
                                             h[s].msg_data.topic_message_id, GroupSide,
                                             h[s].update_id, h[s].text)}
                      ELSE gw
    /\ Leave(s)
    /\ UNCHANGED <<now, dbVars, cacheVars, lockWaiters, arrivals, idVars, ghostVars,
                   flowVars>>

\* -------------------------------------------- handle_topic_edited_message
\* The messages of the staff group that the bot itself sent.
BotGroupMessage(m) ==
    \E c \in gw : /\ c.op \in {"copy_message", "forward_message", "create_forum_topic",
                                "pin"}
                  /\ c.out = m

\* A staff member edits one of their messages in a thread.
ArriveTopicEdit(s, m, text) ==
    /\ m \in GroupIds
    /\ ~BotGroupMessage(m)
    /\ ArriveUpdate(s, [Idle EXCEPT !.kind = "te", !.pc = "te", !.chat = "group",
                                    !.msg = m, !.text = text])

\* An edit without text is dropped; else select_message by the thread message id.
TeSelectMessage(s) ==
    /\ h[s].pc = "te"
    /\ IF h[s].text = NoText
       THEN Finish(s)
       ELSE h' = [h EXCEPT ![s].pc = "te_edit",
                           ![s].msg_data = select_message(messages, h[s].msg, TRUE, 0)]
    /\ UNCHANGED <<now, dbVars, cacheVars, lockVars, arrivals, idVars, ghostVars, callVars>>

\* Variant: the edited text is classified before it is mirrored.
TeEditClassified(s) ==
    /\ h[s].pc = "te_edit"
    /\ gw' = IF h[s].msg_data = NoMessage THEN gw
             ELSE gw \cup {CallText("check_spam", h[s].msg_data.userid, h[s].msg, 0,
                                    h[s].update_id, h[s].text),
                           CallText("edit_message_text", h[s].msg_data.userid,
                                    h[s].msg_data.private_message_id, PrivateSide,
                                    h[s].update_id, h[s].text)}
    /\ Finish(s)
    /\ UNCHANGED <<now, dbVars, cacheVars, lockVars, arrivals, idVars, ghostVars,
                   flowVars>>

\* No row: return.  Else edit_message_text on the private copy, with the
\* edited text; the handler ends whether or not the gateway accepts it.
TeEdit(s) ==
    /\ h[s].pc = "te_edit"
    /\ \E ok \in BOOLEAN :
          gw' = IF h[s].msg_data = NoMessage \/ ~ok THEN gw
                ELSE gw \cup {CallText("edit_message_text", h[s].msg_data.userid,
                                       h[s].msg_data.private_message_id, PrivateSide,
                                       h[s].update_id, h[s].text)}
    /\ Finish(s)
    /\ UNCHANGED <<now, dbVars, cacheVars, lockVars, arrivals, idVars, ghostVars,
                   flowVars>>

\* SpecTrusted: staff messages and staff edits in the threads, for users who
\* are members, blocked, or unknown to the bot.
InitTrusted ==
    /\ \E st \in [Users -> {"member", "banned", "new"}] : InitFrom(st, FloodWindow)
    /\ txn = [c \in Callers |-> NoTxn]
    /\ pool = 0

NextTrusted ==
    \/ /\ arrivals < MaxTrustedUpdates
       /\ \E s \in Slots :
             \/ \E t \in Threads : ArriveTopicMessage(s, t)
             \/ \E m \in (SpamTopic + 1)..(SpamTopic + MaxTrustedUpdates),
                   text \in RaceTexts : ArriveTopicEdit(s, m, text)
    \/ \E s \in Slots :
          \/ TmStart(s) \/ TmSelectUser(s) \/ TmWait(s) \/ TmCopy(s)
          \/ TmInsertMessage(s)
          \/ TeSelectMessage(s) \/ TeEdit(s)

SpecTrusted == InitTrusted /\ [][NextTrusted]_vars

\* ------------------------------------------------ handle_reaction_message
Emoji == {"x", "y", "z"}
Reactions ==
    { r \in UNION { [1..n -> Emoji] : n \in 0..MaxReactions } :
        \A i, j \in 1..Len(r) : i # j => r[i] # r[j] }

\* _ensure_single_reaction returns the reaction to mirror; with more than one a
\* warning is sent first.
ensure_single_reaction_all(reaction) == reaction
ensure_single_reaction(reaction) ==
    IF Len(reaction) <= 1 THEN reaction ELSE <<reaction[1]>>

\* A reaction update: message_reaction.chat, message_id and new_reaction.
ArriveReaction(s, chat, u, m, reaction) ==
    /\ CASE chat = "private" -> u \in Users /\ m \in PrivateIds(u)
         [] chat = "group" -> u = 0 /\ m \in GroupIds
         [] OTHER -> u = 0 /\ m = 1
    /\ ArriveUpdate(s, [Idle EXCEPT !.kind = "rx", !.pc = "rx", !.chat = chat,
                                    !.user = u, !.msg = m, !.reaction = reaction])

RxSelectMessage(s) ==
    /\ h[s].pc = "rx"
    /\ LET msg_data == IF h[s].chat = "other" THEN NoMessage
                       ELSE select_message(messages, h[s].msg, h[s].chat = "group",
                                           h[s].user)
       IN IF msg_data = NoMessage
          THEN Finish(s)
          ELSE h' = [h EXCEPT ![s].msg_data = msg_data,
                              ![s].pc = IF Len(h[s].reaction) <= 1 THEN "rx_set"
                                                                    ELSE "rx_warn"]
    /\ UNCHANGED <<now, dbVars, cacheVars, lockVars, arrivals, idVars, ghostVars, callVars>>

\* The warning goes to the chat the reaction came from.
RxWarn(s) ==
    /\ h[s].pc = "rx_warn"
    /\ \E ok \in BOOLEAN :
          IF ok
          THEN /\ gw' = gw \cup {CallText("send_reaction_warning", h[s].user, h[s].msg,
                                          IF h[s].chat = "private" THEN PrivateSide
                                                                   ELSE GroupSide,
                                          h[s].update_id, h[s].reaction)}
               /\ IF h[s].chat = "private"
                  THEN /\ nextPriv' = [nextPriv EXCEPT ![h[s].user] = @ + 1]
                       /\ UNCHANGED nextGroupId
                  ELSE /\ nextGroupId' = nextGroupId + 1
                       /\ UNCHANGED nextPriv
               /\ h' = [h EXCEPT ![s].pc = "rx_set"]
          ELSE /\ Finish(s)
               /\ UNCHANGED <<gw, idVars>>
    /\ UNCHANGED <<now, dbVars, cacheVars, lockVars, arrivals, ghostVars, flowVars>>

\* set_message_reaction on the counterpart named by the mapping row.
RxSet(s) ==
    /\ h[s].pc = "rx_set"
    /\ LET msg == h[s].msg_data
           reaction == ensure_single_reaction(h[s].reaction)
       IN \E ok \in BOOLEAN :
            gw' = IF ~ok THEN gw
                  ELSE gw \cup {IF h[s].chat = "private"
                                THEN CallText("set_message_reaction", 0,
                                              msg.topic_message_id, GroupSide,
                                              h[s].update_id, reaction)
                                ELSE CallText("set_message_reaction", msg.userid,
                                              msg.private_message_id, PrivateSide,
                                              h[s].update_id, reaction)}
    /\ Finish(s)
    /\ UNCHANGED <<now, dbVars, cacheVars, lockVars, arrivals, idVars, ghostVars, flowVars>>

\* --------------------------------------------------------------------- /d
\* /d has no chat filter: besides the private chats and the staff group it
\* comes from any chat the bot is in, "forum" a supergroup with topics (whose
\* message ids are its own) and "other" a chat without.
DChats == Chats \cup {"forum"}

\* /d in reply to message m, sent by user u in their private chat or by
\* somebody (u = 0) in a group.
ArriveDelete(s, chat, u, m) ==
    /\ CASE chat = "private" -> u \in Users /\ m \in PrivateIds(u)
         [] chat = "group" -> u = 0 /\ m \in GroupIds
         [] chat = "forum" -> u = 0
         [] OTHER -> u = 0 /\ m = 1
    /\ ArriveUpdate(s, [Idle EXCEPT !.kind = "d", !.pc = "d", !.chat = chat,
                                    !.user = u, !.msg = m])

DSelectMessage(s) ==
    /\ h[s].pc = "d"
    /\ LET msg == IF h[s].chat = "other" THEN NoMessage
                  ELSE select_message(messages, h[s].msg,
                                      h[s].chat \in {"group", "forum"}, h[s].user)
       IN IF msg = NoMessage
          THEN Finish(s)
          ELSE h' = [h EXCEPT ![s].msg_data = msg, ![s].pc = "d_private"]
    /\ UNCHANGED <<now, dbVars, cacheVars, lockVars, arrivals, idVars, ghostVars, callVars>>

\* delete_message at the gateway: refused for a message already deleted, and
\* the gateway may refuse or time out in any other case.
GatewayDelete(s, side, u, m, pcNext) ==
    \E ok \in BOOLEAN :
        /\ ok => ~Deleted(side, u, m)
        /\ IF ok
           THEN /\ gw' = gw \cup {Call("delete_message", u, m, side, h[s].update_id)}
                /\ h' = [h EXCEPT ![s].pc = pcNext]
           ELSE /\ gw' = gw
                /\ Finish(s)

DDeletePrivate(s) ==
    /\ h[s].pc = "d_private"
    /\ GatewayDelete(s, PrivateSide, h[s].msg_data.userid,
                     h[s].msg_data.private_message_id, "d_topic")
    /\ UNCHANGED <<now, dbVars, cacheVars, lockVars, arrivals, idVars, ghostVars, flowVars>>

DDeleteTopic(s) ==
    /\ h[s].pc = "d_topic"
    /\ GatewayDelete(s, GroupSide, 0, h[s].msg_data.topic_message_id, "d_row")
    /\ UNCHANGED <<now, dbVars, cacheVars, lockVars, arrivals, idVars, ghostVars, flowVars>>

DDeleteRow(s) ==
    /\ h[s].pc = "d_row"
    /\ messages' = delete_message(messages, h[s].msg_data)
    /\ Finish(s)
    /\ UNCHANGED <<now, verify_users, block_users, users, cacheVars, lockVars, arrivals,
                   idVars, ghostVars, callVars>>

\* SpecProp: verified users with a thread; private messages, staff messages,
\* edits, reactions and /d commands, handled concurrently.
InitProp ==
    /\ InitFrom([u \in Users |-> "member"], FloodWindow)
    /\ txn = [c \in Callers |-> NoTxn]
    /\ pool = 0

PropTexts == {NoText, <<"a">>}

PropArrive(s) ==
    \/ \E u \in Users, text \in PropTexts : ArrivePrivate(s, u, text)
    \/ \E t \in Threads : ArriveTopicMessage(s, t)
    \/ \E u \in Users, m \in 1..MaxPropUpdates, text \in PropTexts :
          ArrivePrivateEdit(s, u, m, text)
    \/ \E chat \in Chats, u \in Users \cup {0}, m \in 1..(SpamTopic + MaxPropUpdates),
          reaction \in Reactions : ArriveReaction(s, chat, u, m, reaction)
    \/ \E chat \in DChats, u \in Users \cup {0}, m \in 1..(SpamTopic + MaxPropUpdates) :
          ArriveDelete(s, chat, u, m)

NextProp ==
    \/ /\ arrivals < MaxPropUpdates
       /\ \E s \in Slots : PropArrive(s)
    \/ \E s \in Slots :
          \/ HpmStart(s) \/ HpmSelectVerified(s)
          \/ MtSelectBlock(s) \/ MtSelectUser(s) \/ MtSpam(s) \/ MtSend(s)
          \/ MtInsertMessage(s)
          \/ TmStart(s) \/ TmSelectUser(s) \/ TmCopy(s) \/ TmInsertMessage(s)
          \/ PeSelectMessage(s) \/ PeSelectUser(s) \/ PeSpam(s) \/ PeForward(s)
          \/ PeReject(s) \/ PeEdit(s)
          \/ RxSelectMessage(s) \/ RxWarn(s) \/ RxSet(s)
          \/ MtWait(s) \/ TmWait(s) \/ PeWait(s)
          \/ DSelectMessage(s) \/ DDeletePrivate(s) \/ DDeleteTopic(s) \/ DDeleteRow(s)

SpecProp == InitProp /\ [][NextProp]_vars

\* SpecBlocked: verified users with a thread who send messages and edit them
\* while the staff bans them in their threads.
NextBlocked ==
    \/ /\ arrivals < MaxBlockedUpdates
       /\ \E s \in Slots :
             \/ \E u \in Users : ArrivePrivate(s, u, NoText)
             \/ \E u \in Users, m \in 1..MaxBlockedUpdates :
                   ArrivePrivateEdit(s, u, m, <<"a">>)
             \/ \E t \in Threads : ArriveCommand(s, "ban", t, FALSE)
    \/ \E s \in Slots :
          \/ HpmStart(s) \/ HpmSelectVerified(s)
          \/ MtWait(s) \/ MtSelectBlock(s) \/ MtSelectUser(s) \/ MtSend(s)
          \/ MtInsertMessage(s)
          \/ PeSelectMessage(s) \/ PeSelectUser(s) \/ PeWait(s) \/ PeSpam(s)
          \/ PeForward(s) \/ PeReject(s) \/ PeEdit(s)
          \/ BanSelectUser(s) \/ BanPin(s) \/ BanWait(s) \/ BanInsert(s)

SpecBlocked == InitProp /\ [][NextBlocked]_vars

\* ------------------------------------------------------------- check_spam
\* SpecSpam: one call of SpamDetector.check_spam, for any text and any
\* prohibited-word list (a blank line of the file is the empty word), with the
\* classifier configured or not, and every way its call can end.
Chars == {"a", "A", "b"}
Texts == UNION { [1..n -> Chars] : n \in 0..MaxTextLen }
WordChoices == { << >>, <<"a">>, <<"A">>, <<"a", "b">> }
WordLists == UNION { [1..n -> WordChoices] : n \in 0..MaxWords }

\* Variant: the scan ignores case.
InIgnoringCase(w, text) ==
    \E i \in 0..(Len(text) - Len(w)) :
        Lower(SubSeq(text, i + 1, i + Len(w))) = Lower(w)

\* `w in text` for strings: the first position where w starts, if any.
RECURSIVE In(_, _)
In(w, text) ==
    IF Len(w) > Len(text) THEN FALSE
    ELSE IF SubSeq(text, 1, Len(w)) = w THEN TRUE
    ELSE IF text = << >> THEN FALSE
    ELSE In(w, Tail(text))

\* next((w for w in prohibited_words if w in text), None), then the verdict.
RECURSIVE detect_of_words(_, _)
detect_of_words(words, text) ==
    IF words = << >> THEN [spam |-> FALSE, reason |-> Reason("no_keyword", << >>)]
    ELSE IF In(Head(words), text)
         THEN [spam |-> TRUE, reason |-> Reason("keyword", Head(words))]
         ELSE detect_of_words(Tail(words), text)

\* The exceptions that can leave the try block, each with its base classes and
\* with what failed: the 40 s deadline of wait_for, the client reporting an error,
\* or anything else (response.choices missing or empty, a defect in the code).
Bases(cls) ==
    CASE cls = "TimeoutError" -> {"TimeoutError", "OSError", "Exception"}
      [] cls = "APIStatusError" -> {"APIStatusError", "OpenAIError", "Exception"}
      [] cls = "APIConnectionError" -> {"APIConnectionError", "OpenAIError", "Exception"}
      [] cls = "ValidationError" -> {"ValidationError", "ValueError", "Exception"}
      [] cls = "TypeError" -> {"TypeError", "Exception"}
      [] cls = "ValueError" -> {"ValueError", "Exception"}
      [] cls = "IndexError" -> {"IndexError", "LookupError", "Exception"}
      [] cls = "AttributeError" -> {"AttributeError", "Exception"}
      [] OTHER -> {cls}

Failures ==
    { [cls |-> "TimeoutError", kind |-> "timeout"],
      [cls |-> "APIStatusError", kind |-> "declared"],
      [cls |-> "APIConnectionError", kind |-> "declared"],
      [cls |-> "TypeError", kind |-> "unknown"],
      [cls |-> "ValueError", kind |-> "unknown"],
      [cls |-> "IndexError", kind |-> "unknown"],
      [cls |-> "AttributeError", kind |-> "unknown"] }

\* The except clauses of check_spam, in order.
Handled(cls) ==
    \/ "TimeoutError" \in Bases(cls)
    \/ "OpenAIError" \in Bases(cls)
    \/ Bases(cls) \cap {"ValidationError", "TypeError", "ValueError"} # {}

\* The answers: no content, text that is not JSON, or a JSON object.
SpamValues == {"absent", "null", "true", "false", "0", "1", "5", "'yes'", "'x'"}
ReasonValues == {"absent", "null", "5", "'x'"}
Answers ==
    { [NoAnswer EXCEPT !.kind = "none"], [NoAnswer EXCEPT !.kind = "not_json"] }
    \cup [kind : {"object"}, spam : SpamValues, reason : ReasonValues, extra : BOOLEAN]

\* Spam.model_validate_json: the model forbids extra fields and is not strict, so
\* a bool field also takes the numbers 0 and 1 and the strings pydantic reads as
\* booleans; a str field takes strings only.
BoolOf(v) == v \in {"true", "1", "'yes'"}
model_validate_json(a) ==
    IF /\ a.kind = "object"
       /\ ~a.extra
       /\ a.spam \in {"true", "false", "0", "1", "'yes'"}
       /\ a.reason = "'x'"
    THEN [ok |-> TRUE, spam |-> BoolOf(a.spam)]
    ELSE [ok |-> FALSE, spam |-> FALSE]

\* check_spam leaves with a verdict.
SpReturn(rec, via, verdict) ==
    sp' = [rec EXCEPT !.pc = "done", !.ret = "returned", !.via = via,
                      !.spam = verdict.spam, !.reason = verdict.reason]

\* An exception of class f.cls leaves the try block.
SpExcept(rec, f) ==
    IF Handled(f.cls)
    THEN SpReturn([rec EXCEPT !.failure = f], "words", detect_of_words(rec.words, rec.text))
    ELSE sp' = [rec EXCEPT !.failure = f, !.pc = "done", !.ret = "raised"]

SpUnchanged ==
    UNCHANGED <<now, dbVars, cacheVars, lockVars, h, arrivals, idVars, ghostVars,
                window, floodHist, floodRet, calls, txn, pool, gw>>

\* check_spam is entered: without token, base_url or model the keyword verdict
\* is returned at once; else the call awaits the limiter.
SpCall(text, words, configured) ==
    /\ sp.pc = "none"
    /\ LET rec == [NoCheck EXCEPT !.text = text, !.words = words,
                                  !.configured = configured]
       IN IF configured
          THEN sp' = [rec EXCEPT !.pc = "acquire"]
          ELSE SpReturn(rec, "words", detect_of_words(words, text))
    /\ SpUnchanged

\* Variant: the classifier is called without a token of the limiter.
SpAcquireFree ==
    /\ sp.pc = "acquire"
    /\ sp' = [sp EXCEPT !.pc = "request", !.requests = @ + 1]
    /\ SpUnchanged

\* limiter.acquire() returns and chat.completions.create is awaited.
SpAcquire ==
    /\ sp.pc = "acquire"
    /\ sp' = [sp EXCEPT !.pc = "request", !.tokens = @ + 1, !.requests = @ + 1]
    /\ SpUnchanged

\* The awaited call raises.
SpFail(f) ==
    /\ sp.pc = "request"
    /\ SpExcept(sp, f)
    /\ SpUnchanged

\* The awaited call returns a message, which is validated.
SpAnswer(a) ==
    /\ sp.pc = "request"
    /\ LET v == model_validate_json(a)
           rec == [sp EXCEPT !.answer = a]
       IN IF v.ok
          THEN SpReturn(rec, "classifier",
                        [spam |-> v.spam, reason |-> Reason("classifier", << >>)])
          ELSE SpExcept(rec, [cls |-> "ValidationError", kind |-> "schema"])
    /\ SpUnchanged

InitSpam ==
    /\ InitFrom([u \in Users |-> "new"], FloodWindow)
    /\ txn = [c \in Callers |-> NoTxn]
    /\ pool = 0

NextSpam ==
    \/ \E text \in Texts, words \in WordLists, configured \in BOOLEAN :
          SpCall(text, words, configured)
    \/ SpAcquire
    \/ \E f \in Failures : SpFail(f)
    \/ \E a \in Answers : SpAnswer(a)

SpecSpam == InitSpam /\ [][NextSpam]_vars

\* ------------------------------------------- the classifier and its limiter
\* SpecClassifier: calls of check_spam, one after another, made for new
\* messages and for edits on the one SpamDetector of the bot, whose settings
\* are those found at the first call.  sp.tokens counts the tokens taken from
\* its limiter and sp.requests the calls of the classifier, over all calls.
Configs == [token : {"", "k"}, base_url : {"", "/", "u/"}, model : {"", "m"}]
ClTexts == { << >>, <<"a">> }
ClWords == { << >>, << <<"a">> >> }

\* SpamDetector._replace_base_url: url.rstrip('/') when the url ends with '/'.
replace_base_url(url) ==
    CASE url = "/" -> ""
      [] url = "u/" -> "u"
      [] OTHER -> url

\* not (not self.token or not self.base_url or not self.model)
Configured(cfg) ==
    cfg.token # "" /\ replace_base_url(cfg.base_url) # "" /\ cfg.model # ""

\* msg_to_topic ("message") or handle_private_edited_message ("edit") calls
\* check_spam through _check_spam_with_typing.
ClCall(origin, text, words, cfg) ==
    /\ sp.pc = "none" \/ (sp.pc = "done" /\ cfg = sp.config)
    /\ calls < MaxClassifierCalls
    /\ calls' = calls + 1
    /\ LET rec == [NoCheck EXCEPT !.text = text, !.words = words, !.origin = origin,
                                  !.config = cfg,
                                  !.configured = Configured(cfg),
                                  !.tokens = sp.tokens, !.requests = sp.requests]
       IN IF rec.configured
          THEN sp' = [rec EXCEPT !.pc = "acquire"]
          ELSE SpReturn(rec, "words", detect_of_words(words, text))
    /\ UNCHANGED <<now, dbVars, cacheVars, lockVars, h, arrivals, idVars, ghostVars,
                   window, floodHist, floodRet, txn, pool, gw>>

NextClassifier ==
    \/ \E origin \in {"message", "edit"}, text \in ClTexts, words \in ClWords,
          cfg \in Configs :
          ClCall(origin, text, words, cfg)
    \/ SpAcquire
    \/ \E f \in Failures : SpFail(f)
    \/ \E a \in Answers : SpAnswer(a)

SpecClassifier == InitSpam /\ [][NextClassifier]_vars

\* ------------------------------------------------- _check_spam_with_typing
\* SpecTyping: one call of _check_spam_with_typing.  sp.wrap is the position of
\* the caller in the wrapper, sp.task the state of the keep_action task and
\* sp.typed the number of send_chat_action calls made.  The caller holds the
\* user's lock throughout, so the task's `while lock.locked()` goes on.  The
\* event loop runs the task only while the caller is suspended in an await.
CallerSuspended ==
    \/ sp.wrap = "running" /\ sp.pc \in {"acquire", "request"}
    \/ sp.wrap \in {"joining", "returned", "raised", "indicator_raised"}

\* Variant: the task is left running.
cancel_skipped(task) == task

\* Task.cancel(): a task that is done stays as it is.
cancel(task) == IF task \in {"created", "sending", "sleeping"} THEN "cancelling" ELSE task

\* asyncio.create_task(self.keep_action(...)), then check_spam is entered.
TyCall(text, words, configured) ==
    /\ sp.pc = "none"
    /\ LET rec == [NoCheck EXCEPT !.text = text, !.words = words,
                                  !.configured = configured,
                                  !.wrap = "running", !.task = "created"]
       IN IF configured
          THEN sp' = [rec EXCEPT !.pc = "acquire"]
          ELSE SpReturn(rec, "words", detect_of_words(words, text))
    /\ SpUnchanged

\* The task runs up to an await: send_chat_action is called, or the sleep begins.
TySend ==
    /\ CallerSuspended
    /\ sp.task \in {"created", "sleeping"}
    /\ sp.typed < MaxTyping
    /\ sp' = [sp EXCEPT !.task = "sending", !.typed = @ + 1]
    /\ SpUnchanged

\* send_chat_action returns, or raises and ends the task.
TySent ==
    /\ CallerSuspended
    /\ sp.task = "sending"
    /\ \E ok \in BOOLEAN : sp' = [sp EXCEPT !.task = IF ok THEN "sleeping" ELSE "failed"]
    /\ SpUnchanged

\* CancelledError is thrown into the task at its await (or before its first step).
TyCancelled ==
    /\ CallerSuspended
    /\ sp.task = "cancelling"
    /\ sp' = [sp EXCEPT !.task = "cancelled"]
    /\ SpUnchanged

\* finally: t.cancel(), then `await t` begins.
TyFinally ==
    /\ sp.wrap = "running"
    /\ sp.pc = "done"
    /\ sp' = [sp EXCEPT !.task = cancel(sp.task), !.wrap = "joining"]
    /\ SpUnchanged

\* `with suppress(asyncio.CancelledError): await t` ends once the task is done:
\* the task's own exception is raised, a cancellation is swallowed and the
\* wrapper leaves as check_spam did.
TyJoin ==
    /\ sp.wrap = "joining"
    /\ sp.task \in {"cancelled", "failed"}
    /\ sp' = [sp EXCEPT !.wrap = IF sp.task = "failed" THEN "indicator_raised"
                                 ELSE IF sp.ret = "raised" THEN "raised" ELSE "returned"]
    /\ SpUnchanged

NextTyping ==
    \/ \E text \in Texts, words \in WordLists, configured \in BOOLEAN :
          TyCall(text, words, configured)
    \/ SpAcquire
    \/ \E f \in Failures : SpFail(f)
    \/ \E a \in Answers : SpAnswer(a)
    \/ TySend \/ TySent \/ TyCancelled \/ TyFinally \/ TyJoin

SpecTyping == InitSpam /\ [][NextTyping]_vars

\* ================================================================ claims
\* Where a handler is while msg_to_topic runs for it.
MtPcs == {"mt_wait", "mt_selblock", "mt_insblock", "mt_seluser", "mt_seluser2",
          "mt_spam", "mt_send", "mt_insmsg"}

InMsgToTopic(s) ==
    \/ h[s].pc \in MtPcs
    \/ h[s].pc \in {"ct_select", "ct_create", "ct_insert"} /\ h[s].ret = "mt"

\* C1 (verification gate): a handler of a private message is in msg_to_topic only
\* if the verified flag it read (the cached flag, or the VerificationRecord when
\* the cache held none) was true; and a user who never passed the challenge and
\* was never verified by /verify has no relayed message and no mapping row.
C1_VerificationGate ==
    /\ \A s \in Slots : InMsgToTopic(s) => h[s].sawVerified
    /\ \A u \in Users :
          ~passed[u] => /\ \A r \in relays : r.userid # u
                        /\ \A m \in messages : m.userid # u

\* A verified sender's message was relayed and mapped while another user, who
\* never passed, has been challenged instead.
C1_Witness ==
    /\ \E r \in relays : \E m \in messages :
          /\ passed[r.userid]
          /\ m.userid = r.userid
          /\ m.private_message_id = r.msg
    /\ \E u \in Users : ~passed[u] /\ verify_users[u].present /\ nextPriv[u] > 1

\* Where a handler is while it runs a mutating step of some user's pipeline: the
\* sections under `async with` the user's lock, and the pinning and the deletion
\* of the ban announcement.
PipelinePcs == {"mt_selblock", "mt_insblock", "mt_seluser", "mt_seluser2", "mt_spam",
                "mt_send", "mt_insmsg", "ct_select", "ct_create", "ct_insert",
                "gv_select", "sc_persist", "va_upd", "va_insblock",
                "tm_copy", "tm_insmsg", "ban_pin", "ban_ins", "unban_delpin", "unban_del"}

InPipeline(u) == { s \in Slots : h[s].user = u /\ h[s].pc \in PipelinePcs }

\* C2 (per-user mutual exclusion): for every user at most one handler is in a
\* mutating pipeline step of that user.
C2_MutualExclusion == \A u \in Users : Cardinality(InPipeline(u)) <= 1

\* C3 (three-strike rule): counting the wrong submissions compared since a
\* challenge was issued with the attempt counter at 0 (the cache not emptied in
\* between, one submission handled at a time), the 1st and the 2nd are answered
\* with 2 and 1 remaining tries and change neither the block table nor the cached
\* block flag; the 3rd is answered with the block notice and its handler goes on
\* to persist the BlockRecord and to set the cached flag block = True.
C3_Step(u) ==
    LET k == wrongSubs'[u] IN
    /\ (wrongSubs[u] >= 0 /\ k = wrongSubs[u] + 1) =>
          /\ lastNotice'.userid = u
          /\ k \in {1, 2} =>
                /\ lastNotice'.kind = Remaining(MaxAttempts - k)
                /\ block_users' = block_users
                /\ user_data'[u].block = user_data[u].block
                /\ \A s \in Slots : h'[s].pc # "va_insblock"
          /\ k = MaxAttempts =>
                /\ lastNotice'.kind = "verify_block"
                /\ \E s \in Slots : h'[s].user = u /\ h'[s].pc = "va_insblock"
    /\ \A s \in Slots :
          (h[s].pc = "va_insblock" /\ h[s].user = u /\ h'[s] # h[s]) =>
              /\ wrongSubs[u] \in {-1, MaxAttempts}
              /\ block_users'[u].present
              /\ user_data'[u].block = True

C4_Step(s) ==
    LET u == h[s].user IN
    /\ ( /\ h[s].pc = "va_select" /\ h'[s] # h[s]
         /\ verify_users[u].present /\ ~verify_users[u].verified
         /\ get_flag(user_data, u, "verify_attempts", 0) < MaxAttempts
         /\ Lower(h[s].text) = Lower(verify_users[u].code) ) =>
            /\ h'[s].pc = "va_upd"
            /\ block_users' = block_users
    /\ (h[s].pc = "va_upd" /\ h'[s] # h[s]) =>
            /\ verify_users'[u].verified
            /\ user_data'[u].verify = True
            /\ user_data'[u].verify_attempts = 0
            /\ h'[s].pc = "ct_select" /\ h'[s].ret = "va"
            /\ block_users' = block_users
    /\ (h[s].ret = "va" /\ h[s].pc \in {"ct_select", "ct_create", "ct_insert"}
                        /\ h'[s] # h[s]) =>
            /\ block_users' = block_users
            /\ (h[s].pc # "ct_create" /\ h'[s].pc = "idle") =>
                    users'[u] # 0 /\ user_data'[u].to_topic = users'[u]

C5_Step(s) ==
    LET u == h[s].user IN
    /\ (h[s].pc = "gv_select" /\ h'[s] # h[s] /\ ~verify_users[u].present) =>
            /\ h'[s].pc = "sc_persist" /\ h'[s].mode = "insert"
            /\ user_data'[u].verify_attempts = 0
            /\ user_data'[u].verify = False
            /\ UNCHANGED <<relays, messages, verify_users>>
    /\ (h[s].pc = "sc_persist" /\ h[s].mode = "insert" /\ h'[s] # h[s]) =>
            /\ verify_users'[u].present
            /\ verify_users'[u].code \in Codes
            /\ verify_users'[u].expires_at = now + Ttl
            /\ ~verify_users'[u].verified
            /\ lastNotice' = Notice(u, h[s].msg, "challenge")
            /\ h'[s].pc = "idle"
            /\ UNCHANGED <<relays, messages, wrongSubs, block_users>>
            /\ user_data'[u].verify_attempts = user_data[u].verify_attempts

C5_FirstContact == [][\A s \in Slots : C5_Step(s)]_vars

\* A first contact has been answered with a challenge.
C5_Witness ==
    \E u \in Users :
        /\ lastNotice = Notice(u, 1, "challenge")
        /\ verify_users[u].present /\ ~verify_users[u].verified
        /\ verify_users[u].expires_at = now + Ttl
        /\ user_data[u].verify_attempts = 0
        /\ \A r \in relays : r.userid # u

\* C6 (a struck user stays locked out): from the step that persists the
\* BlockRecord after the third wrong submission until the record is deleted, no
\* step changes the user's VerificationRecord: no new challenge, no verified = true.
C6_StruckStaysLockedOut ==
    [][\A u \in Users :
          (struck[u] /\ block_users[u].present /\ block_users'[u].present) =>
              verify_users'[u] = verify_users[u]]_vars

\* C7 (blocked users are not relayed): when msg_to_topic reads the block table
\* under the sender's lock and finds a BlockRecord, the handler answers with the
\* block notice and ends: nothing is copied or forwarded, no mapping row is
\* recorded.  So once the flood auto-block is persisted, no message whose block
\* check follows is relayed as long as the record exists.
C7_Step(s) ==
    LET u == h[s].user IN
    (h[s].pc = "mt_selblock" /\ h'[s] # h[s] /\ block_users[u].present) =>
        /\ h'[s].pc = "idle"
        /\ lastNotice' = Notice(u, h[s].msg, "banned")
        /\ user_data'[u].block = True
        /\ UNCHANGED <<relays, messages, user_message_time_queues>>

C7_BlockedNotRelayed == [][\A s \in Slots : C7_Step(s)]_vars

\* After the flood auto-block and a cache clear, msg_to_topic has turned away the
\* user's next message.
C7_Witness ==
    \E u \in Users :
        /\ floodRet[u] > FloodBlockAbove
        /\ block_users[u].present
        /\ lastNotice = Notice(u, 2, "banned")
        /\ \A r \in relays : r.userid # u

\* C7 as first stated: a private message whose sender had a BlockRecord when its
\* handling began is never copied or forwarded into the group.
C7_BlockedAtStartNotRelayed ==
    \A s \in Slots : h[s].blockedAtStart => h[s].pc # "mt_insmsg"


\* C8 (flood counter result): for a window W > 0, the value flood_message last
\* returned for a user is the number of that user's recorded timestamps within W
\* of the one just recorded, that one included, so at least 1; the queue holds
\* exactly those, the older ones being gone from its front; other users'
\* timestamps play no part, and when all earlier ones have aged out the result
\* is 1, as for a first call.
C8_InWindow(u) ==
    LET hist == floodHist[u]
    IN { i \in DOMAIN hist : hist[Len(hist)] - hist[i] <= window }

C8_FloodCount ==
    \A u \in Users :
        (window > 0 /\ floodHist[u] # << >>) =>
            LET hist == floodHist[u]
                n == Cardinality(C8_InWindow(u))
            IN /\ floodRet[u] = n
               /\ floodRet[u] >= 1
               /\ user_message_time_queues[u] = SubSeq(hist, Len(hist) - n + 1, Len(hist))
               /\ (\A i \in 1..(Len(hist) - 1) : hist[Len(hist)] - hist[i] > window) =>
                      /\ floodRet[u] = 1
                      /\ user_message_time_queues[u] = << hist[Len(hist)] >>

\* One user's entries have aged out and the count is 1 again while another
\* user's count stands at 2 or more.
C8_Witness ==
    \E u \in Users, v \in Users :
        /\ u # v
        /\ window > 0
        /\ Len(floodHist[u]) >= 2 /\ floodRet[u] = 1
        /\ floodRet[v] >= 2
        /\ Len(user_message_time_queues[v]) < Len(floodHist[v])

\* C9 (flood thresholds): with c the count returned for a message whose sender is
\* not blocked: c > 10 sends the flood notice, sets the cached block flag and goes
\* on to persist a BlockRecord and stop without relaying; 8 <= c <= 10 sends a
\* warning and goes on to relay; c <= 7 sends nothing.  So when the first k <= 11
\* messages of a member fall inside one 4-second window, the k-th is warned
\* exactly if k is 8, 9 or 10 and triggers the block exactly if k is 11.
C9_Step(s) ==
    LET u == h[s].user
        c == floodRet'[u]
        k == Len(floodHist'[u])
        warned == lastNotice' = Notice(u, h[s].msg, "flood_warn")
        blocked == lastNotice' = Notice(u, h[s].msg, "flood_block")
        goesOn == h'[s].pc \in {"mt_seluser", "mt_spam", "mt_send"}
    IN
    /\ (h[s].pc = "mt_selblock" /\ h'[s] # h[s] /\ ~block_users[u].present) =>
          /\ floodHist'[u] = Append(floodHist[u], now)
          /\ c > 10 => /\ blocked
                       /\ user_data'[u].block = True
                       /\ h'[s].pc = "mt_insblock"
          /\ (8 <= c /\ c <= 10) => warned /\ goesOn
          /\ c <= 7 => lastNotice' = lastNotice /\ goesOn
          /\ (k <= 11 /\ floodHist'[u][k] - floodHist'[u][1] <= 4) =>
                /\ c = k
                /\ warned <=> k \in 8..10
                /\ blocked <=> k = 11
          /\ UNCHANGED <<relays, messages, block_users>>
    /\ (h[s].pc = "mt_insblock" /\ h'[s] # h[s]) =>
          /\ block_users'[u].present
          /\ h'[s].pc = "idle"
          /\ UNCHANGED <<relays, messages>>

SameTriple(r, row) ==
    /\ r.userid = row.userid
    /\ r.private_message_id = row.private_message_id
    /\ r.topic_message_id = row.topic_message_id

\* No call with other arguments collides with the arguments of call c.
Undisturbed(c) ==
    \A e \in Callers :
        txn[e].row # txn[c].row => ~MessageConflict({txn[e].row}, txn[c].row)

C10_InsertIdempotent ==
    \A c \in Callers, d \in Callers :
        (c # d /\ txn[c].pc # "none" /\ txn[c].row = txn[d].row /\ Undisturbed(c)) =>
            LET stored == { r \in messages : SameTriple(r, txn[c].row) }
            IN /\ txn[c].ret # "raised" /\ txn[d].ret # "raised"
               /\ Cardinality(stored) <= 1
               /\ (txn[c].pc = "done" /\ txn[d].pc = "done") =>
                      /\ Cardinality(stored) = 1
                      /\ txn[c].ret = "returned" /\ txn[d].ret = "returned"

\* Two calls with the same triple have ended: one stored the row, the other met
\* the IntegrityError and found the row by its topic message id.
C10_Witness ==
    \E c \in Callers, d \in Callers :
        /\ c # d
        /\ txn[c].row = txn[d].row
        /\ txn[c].pc = "done" /\ txn[d].pc = "done"
        /\ txn[c].found = "" /\ txn[d].found = "topic"
        /\ Cardinality(messages) = 1

\* C11 (double uniqueness of mappings): whatever insert_message calls,
\* delete_message calls and retention deletions have run, no two rows of the
\* mapping table share (userid, private_message_id) and no two share
\* topic_message_id.
C11_DoubleUniqueness ==
    \A r1 \in messages, r2 \in messages :
        r1 # r2 =>
            /\ ~(r1.userid = r2.userid /\ r1.private_message_id = r2.private_message_id)
            /\ r1.topic_message_id # r2.topic_message_id

\* A row is stored, a row with a lower id has been deleted, and a call whose row
\* collided with the stored one has ended.
C11_Witness ==
    /\ messages # {}
    /\ \E r \in messages : r.id > Cardinality(messages)
    /\ \E c \in Callers : txn[c].pc = "done" /\ txn[c].found # ""

\* The classifier's output keeps to the two-field schema as the specification
\* words it: an object with spam a boolean, reason a string, and nothing else.
StrictSchema(a) ==
    /\ a.kind = "object"
    /\ a.spam \in {"true", "false"}
    /\ a.reason = "'x'"
    /\ ~a.extra

\* C12 (classifier degradation): a configured check_spam whose classifier call
\* ran into the deadline, raised a declared classifier error, or returned output
\* outside the strict two-field schema returns the keyword verdict for the same
\* text, raises nothing, and has called the classifier once.
C12_ClassifierDegradation ==
    ( /\ sp.pc = "done" /\ sp.configured
      /\ \/ sp.failure.kind \in {"timeout", "declared"}
         \/ sp.answer.kind # "" /\ ~StrictSchema(sp.answer) ) =>
        /\ sp.ret = "returned"
        /\ sp.via = "words"
        /\ [spam |-> sp.spam, reason |-> sp.reason] = detect_of_words(sp.words, sp.text)
        /\ sp.requests = 1

\* C13 (unknown classifier failures propagate): a failure inside check_spam
\* that is neither the deadline, nor a declared classifier error, nor a
\* validation error of the classifier's output is raised to the caller, and no
\* keyword verdict is returned for it.
C13_UnknownFailuresPropagate ==
    (sp.pc = "done" /\ sp.failure.kind = "unknown") =>
        /\ sp.ret = "raised"
        /\ sp.via = ""

\* w occurs in text: at some offset every character of w is there, case and all.
Occurs(w, text) ==
    \E i \in 0..(Len(text) - Len(w)) : \A j \in 1..Len(w) : text[i + j] = w[j]

\* C14 (keyword fallback verdict): whenever check_spam answers with the keyword
\* verdict, spam is true exactly if some listed word occurs in the text as a
\* case-sensitive substring, the reason then names the first such word of the
\* list, and the verdict is a function of the text and the list alone.
C14_KeywordVerdict ==
    (sp.pc = "done" /\ sp.via = "words") =>
        LET hits == { i \in DOMAIN sp.words : Occurs(sp.words[i], sp.text) }
        IN /\ sp.spam <=> hits # {}
           /\ hits # {} =>
                 \E i \in hits :
                    /\ \A k \in hits : i <= k
                    /\ sp.reason = Reason("keyword", sp.words[i])
           /\ hits = {} => sp.reason = Reason("no_keyword", << >>)
           /\ [spam |-> sp.spam, reason |-> sp.reason] = detect_of_words(sp.words, sp.text)

\* The second listed word is the first that occurs, in a text that holds the
\* first listed word in another case only.
C14_Witness ==
    /\ sp.pc = "done" /\ sp.via = "words" /\ sp.spam
    /\ Len(sp.words) = 2
    /\ sp.words[1] = <<"A">> /\ sp.words[2] = <<"a", "b">>
    /\ sp.text = <<"a", "b">>
    /\ sp.reason = Reason("keyword", <<"a", "b">>)

\* C15 (topic creation is idempotent per user): however many create_topic calls
\* run for a user, one after another or at once, the gateway creates at most one
\* topic for that user (the users table holds at most one row per user by its
\* unique userid).
C15_OneTopicPerUser ==
    \A u \in Users :
        Cardinality({ c \in gw : c.op = "create_forum_topic" /\ c.user = u }) <= 1

\* C16 (spam routing in msg_to_topic): every forward of a private message goes
\* to the moderation thread and every copy goes to the thread persisted for the
\* sender; the mapping row of a forwarded message has spam = true, that of a
\* copied one spam = false, and its topic_message_id is the id of the forward or
\* the copy.
C16_SpamRouting ==
    \A c \in gw :
        c.op \in {"forward_message", "copy_message"} =>
            /\ c.op = "forward_message" => c.arg = SpamTopic
            /\ c.op = "copy_message" => c.arg = users[c.user]
            /\ \A m \in messages :
                  (m.userid = c.user /\ m.private_message_id = c.msg) =>
                      /\ m.spam <=> c.op = "forward_message"
                      /\ m.topic_message_id = c.out

\* C17 (recipient unreachable): when the copy of a staff thread message to the
\* user fails because the user blocked the bot, the step sends one failure
\* notice into that thread (one that was not sent before), writes no mapping
\* row and ends the handler; and no state ever holds a mapping row for that
\* thread message or a copy of it delivered to the user (no retry).
C17_Step(s) ==
    (/\ h[s].pc = "tm_copy"
     /\ h'[s] # h[s]
     /\ nextPriv' = nextPriv) =>
        LET notice == Call("send_message_blocked", h[s].user, h[s].msg, h[s].topic, 0)
        IN /\ notice \notin gw
           /\ gw' = gw \cup {notice}
           /\ messages' = messages
           /\ h'[s] = Idle

C17_Unreached ==
    \A c \in gw :
        c.op = "send_message_blocked" =>
            /\ \A m \in messages : m.topic_message_id # c.msg
            /\ \A d \in gw : d.op = "copy_to_private" => d.msg # c.msg

C17_RecipientUnreachable == [](C17_Unreached) /\ [][\A s \in Slots : C17_Step(s)]_vars

\* A staff message met Forbidden and its handler is over, while another staff
\* message was delivered and mapped.
C17_Witness ==
    /\ \E c \in gw : c.op = "send_message_blocked" /\ \A s \in Slots : h[s].msg # c.msg
    /\ \E d \in gw : /\ d.op = "copy_to_private"
                     /\ \E m \in messages : m.topic_message_id = d.msg

\* C18 (private edit propagation): every gateway call made for an edit comes
\* after the verdict on the new text; a forward to the moderation thread and a
\* rejection told to the user happen only under a spam verdict (the rejection
\* after the forward), and then the thread copy is never edited; the thread
\* copy is edited only under a not-spam verdict, on the message the mapping
\* row names, with exactly the new text. A handler holding a spam verdict goes
\* on to forward and reject, one holding a not-spam verdict to the edit.
Verdict(c, v) ==
    \E k \in gw : /\ k.op = "check_spam" /\ k.out = c.out /\ k.arg = v
                  /\ k.text = c.text /\ k.user = c.user

C18_PrivateEditPropagation ==
    /\ \A c \in gw :
          /\ c.op = "forward_edited" => Verdict(c, 1) /\ c.arg = SpamTopic
          /\ c.op = "send_rejected" =>
                /\ Verdict(c, 1)
                /\ \E f \in gw : f.op = "forward_edited" /\ f.out = c.out /\ f.msg = c.msg
          /\ c.op = "edit_message_text" =>
                /\ \E k \in gw : /\ k.op = "check_spam" /\ k.out = c.out /\ k.arg = 0
                                 /\ k.text = c.text
                /\ \A f \in gw : f.op \in {"forward_edited", "send_rejected"} =>
                                    f.out # c.out
                /\ c.text # NoText
    /\ \A s \in Slots :
          h[s].kind = "pe" =>
              LET said(v) == \E k \in gw : /\ k.op = "check_spam"
                                           /\ k.out = h[s].update_id /\ k.arg = v
              IN /\ said(1) => h[s].pc \in {"pe_forward", "pe_reject"}
                 /\ said(0) => /\ h[s].pc = "pe_edit"
                               /\ h[s].msg_data \in messages =>
                                     h[s].msg_data.private_message_id = h[s].msg
                 /\ h[s].pc \in {"pe_forward", "pe_reject"} => said(1)
                 /\ h[s].pc = "pe_edit" => said(0)

\* One edit was found spam, forwarded and rejected; another edit of a mapped
\* message was found clean and replaced the text of its thread copy.
C18_Witness ==
    /\ \E c \in gw : c.op = "send_rejected"
    /\ \E c \in gw : /\ c.op = "edit_message_text"
                     /\ \E m \in messages : m.topic_message_id = c.msg /\ ~m.spam

\* C19 (reaction clamp): a reaction update on a mapped message with n new
\* reactions sets exactly min(n, 1) reactions, the first of the update, on the
\* counterpart; the chat it came from gets one warning, before the mirroring,
\* when n >= 2 and none when n <= 1; an update on an unmapped message, or from
\* a chat that is neither private nor the staff group, ends with no call.
C19_Step(s) ==
    (h[s].kind = "rx" /\ h'[s] # h[s]) =>
        LET r == h[s]
            n == Len(r.reaction)
            first == SubSeq(r.reaction, 1, IF n < 1 THEN n ELSE 1)
            side == IF r.chat = "private" THEN PrivateSide ELSE GroupSide
            warning == CallText("send_reaction_warning", r.user, r.msg, side,
                                r.update_id, r.reaction)
            mapped == \/ /\ r.chat = "private"
                         /\ \E m \in messages : /\ m.userid = r.user
                                                /\ m.private_message_id = r.msg
                      \/ /\ r.chat = "group"
                         /\ \E m \in messages : m.topic_message_id = r.msg
            mirrored == IF r.chat = "private"
                        THEN CallText("set_message_reaction", 0,
                                      r.msg_data.topic_message_id, GroupSide,
                                      r.update_id, first)
                        ELSE CallText("set_message_reaction", r.msg_data.userid,
                                      r.msg_data.private_message_id, PrivateSide,
                                      r.update_id, first)
        IN CASE r.pc = "rx" ->
                  /\ gw' = gw
                  /\ ~mapped => h'[s] = Idle
                  /\ mapped => h'[s].pc = IF n >= 2 THEN "rx_warn" ELSE "rx_set"
             [] r.pc = "rx_warn" ->
                  /\ n >= 2
                  /\ warning \notin gw
                  /\ \/ gw' = gw \cup {warning} /\ h'[s].pc = "rx_set"
                     \/ gw' = gw /\ h'[s] = Idle
             [] r.pc = "rx_set" ->
                  /\ (warning \in gw) <=> (n >= 2)
                  /\ mirrored \notin gw
                  /\ gw' = gw \cup {mirrored} \/ gw' = gw
                  /\ h'[s] = Idle
             [] OTHER -> FALSE

C19_ReactionClamp ==
    [][/\ \A s \in Slots : C19_Step(s)
       /\ \A c \in gw' \ gw :
             c.op \in {"set_message_reaction", "send_reaction_warning"} =>
                 \E s \in Slots : h[s].kind = "rx" /\ h[s].update_id = c.out
                                                   /\ h'[s] # h[s]]_vars

\* An update with several reactions was answered by a warning and mirrored as
\* its first reaction alone, and a single reaction was mirrored without warning.
C19_Witness ==
    /\ \E c, w \in gw : /\ c.op = "set_message_reaction"
                        /\ w.op = "send_reaction_warning"
                        /\ c.out = w.out
                        /\ Len(w.text) >= 2
                        /\ c.text = <<w.text[1]>>
    /\ \E c \in gw : /\ c.op = "set_message_reaction"
                     /\ Len(c.text) = 1
                     /\ \A w \in gw : w.op = "send_reaction_warning" => w.out # c.out

\* C20 (/d is atomic across both sides): the mapping row is removed last, only
\* after both copies were deleted; and no /d command that is over has deleted
\* exactly one of the two copies.
C20_DeleteAtomic ==
    /\ \A s \in Slots :
          h[s].pc = "d_row" =>
              /\ Deleted(PrivateSide, h[s].msg_data.userid,
                         h[s].msg_data.private_message_id)
              /\ Deleted(GroupSide, 0, h[s].msg_data.topic_message_id)
    /\ \A c \in gw :
          (c.op = "delete_message" /\ \A s \in Slots : h[s].update_id # c.out) =>
              \E d \in gw : d.op = "delete_message" /\ d.out = c.out /\ d.arg # c.arg

\* C21 (ban result): when /ban completes in a thread mapped to a user, a
\* BlockRecord exists for that user whose pinned_msg_id is the id of the
\* announcement this ban pinned, and the cached block flag is true, whether or
\* not the user had a BlockRecord before.
C21_BanResult ==
    [][\A s \in Slots :
          (h[s].pc = "ban_ins" /\ h'[s] = Idle) =>
              /\ block_users'[h[s].user].present
              /\ block_users'[h[s].user].pinned_msg_id = h[s].pinned
              /\ user_data'[h[s].user].block = True]_vars

\* C22 (unban result): when /unban completes for a user with a BlockRecord, the
\* announcement named by pinned_msg_id (if any) has been deleted, no BlockRecord
\* exists for the user and the cached block flag is false; a private message is
\* rejected as blocked only while a BlockRecord or a true cached flag exists; and
\* /unban for a user without a BlockRecord ends after its reply with no state
\* changed.
C22_UnbanResult ==
    [][\A s \in Slots :
          /\ (h[s].pc = "unban_del" /\ h'[s] = Idle) =>
                /\ ~block_users'[h[s].user].present
                /\ user_data'[h[s].user].block = False
                /\ h[s].block_data.pinned_msg_id # 0 =>
                      \E c \in gw : /\ c.op = "delete_pinned"
                                    /\ c.msg = h[s].block_data.pinned_msg_id
          /\ (h[s].pc = "unban_selblock" /\ h'[s] # h[s]
                /\ ~block_users[h[s].user].present) =>
                /\ h'[s] = Idle
                /\ UNCHANGED <<dbVars, cacheVars, gw>>
          /\ (h[s].kind = "pm" /\ lastNotice' # lastNotice
                /\ lastNotice'.userid = h[s].user /\ lastNotice'.msg = h[s].msg
                /\ lastNotice'.kind \in {"banned", "banned_cached"}) =>
                \/ block_users[h[s].user].present
                \/ user_data[h[s].user].block = True]_vars

\* C23: /verify <true|false> in a mapped thread sets the cached verify flag and
\* the VerificationRecord's verified flag of the thread's user to the given
\* value and sends the user a notice; these steps leave the cached attempt
\* counter, the stored code and expiry, the BlockRecord and the cached block
\* flag as they were; a /verify with a missing, surplus or unknown argument
\* changes neither the tables nor the cache and sends nothing.
C23_VerifyFrame ==
    [][/\ \A s \in Slots :
           /\ (h[s].kind = "verify" /\ h[s].reason \in {"true", "false"}) =>
                 /\ h[s].pc # "verify_usage"
                 /\ h[s].arg = (h[s].reason = "true")
           /\ (h[s].pc = "verify" /\ h'[s].pc = "verify_upd") =>
                 /\ user_data'[h'[s].user].verify = Flag(h[s].arg)
                 /\ user_data' = [user_data EXCEPT ![h'[s].user].verify = Flag(h[s].arg)]
                 /\ UNCHANGED <<dbVars, user_locks, topic_data,
                                user_message_time_queues, gw>>
           /\ (h[s].pc = "verify_upd" /\ h'[s] = Idle) =>
                 /\ verify_users[h[s].user].present
                 /\ verify_users' = [verify_users EXCEPT ![h[s].user].verified = h[s].arg]
                 /\ \E c \in gw' \ gw :
                       /\ c.op = "send_message_verify" /\ c.user = h[s].user
                       /\ c.arg = IF h[s].arg THEN 1 ELSE 0
                 /\ UNCHANGED <<block_users, users, messages, cacheVars>>
           /\ (h[s].pc = "verify_usage" /\ h'[s] # h[s]) =>
                 UNCHANGED <<dbVars, cacheVars, gw>>
       /\ (arrivals' # arrivals /\ h' = h) => UNCHANGED <<dbVars, cacheVars, gw>>]_vars

\* Both values have been given, each to a user who then was notified.
C23_Witness ==
    /\ \E c \in gw : c.op = "send_message_verify" /\ c.arg = 1
                     /\ verify_users[c.user].verified /\ user_data[c.user].verify = True
    /\ \E c \in gw : c.op = "send_message_verify" /\ c.arg = 0
                     /\ ~verify_users[c.user].verified /\ user_data[c.user].verify = False

\* C24: when a Gateway call made while relaying a private message times out,
\* the sender is told so and handling the message has changed nothing: the
\* tables, the sender's session cache and the sender's flood window are as the
\* message found them.
C24_TimeoutNoTrace ==
    [][\A s \in Slots :
          (/\ h[s].kind = "pm" /\ h[s].snap.taken
           /\ lastNotice' # lastNotice /\ lastNotice'.kind = "timeout"
           /\ lastNotice'.userid = h[s].user /\ lastNotice'.msg = h[s].msg) =>
              /\ dbVars' = h[s].snap.db
              /\ user_data'[h[s].user] = h[s].snap.data
              /\ user_message_time_queues'[h[s].user] = h[s].snap.queue]_vars

\* C25: get_user_lock returns the same mutex for the same user on every call: a
\* mutex cached for a user is never dropped or replaced, the daily clear
\* included, and the handlers of one user that obtained a mutex all obtained
\* the same one.
C25_LockIdentity ==
    [][/\ \A u \in Users : user_locks[u] # 0 => user_locks'[u] = user_locks[u]
       /\ \A s, t \in Slots :
             (h'[s].lock # 0 /\ h'[t].lock # 0 /\ h'[s].user = h'[t].user) =>
                 h'[s].lock = h'[t].lock]_vars

\* C26: the private messages of one unverified user are verified as if handled
\* one at a time; in particular, once the third wrong submission has persisted
\* a BlockRecord, no submission of that user that was already being handled
\* sets verified to true or creates a topic.
C26_VerifySerializable ==
    [][\A s \in Slots :
          /\ (h[s].pc = "va_upd" /\ verify_users'[h[s].user].verified) =>
                ~struck[h[s].user]
          /\ (h[s].pc = "ct_insert" /\ h[s].ret = "va" /\ users'[h[s].user] # 0) =>
                ~struck[h[s].user]]_vars

\* C27: _gif_verify for a user with a VerificationRecord. Verified: it passes
\* through, changing nothing and sending nothing, whatever the stored expiry.
\* Unverified and expired: the cached attempt counter is reset to 0, a new code
\* is stored with expires_at = now + ttl, the expiry is reported and the
\* handler ends without comparing the message. Unverified and unexpired:
\* nothing changes and a private message goes on to the comparison.
C27_Step(s) ==
    LET u == h[s].user
        verify == verify_users[u]
        through == IF h[s].kind = "start" THEN h'[s] = Idle ELSE h'[s].pc = "va_select"
    IN /\ (h[s].pc = "gv_select" /\ h'[s] # h[s] /\ verify.present) =>
             IF verify.verified \/ ~(verify.expires_at < now)
             THEN /\ through
                  /\ UNCHANGED <<dbVars, cacheVars, lastNotice, gw>>
             ELSE /\ h'[s].pc = "sc_persist" /\ h'[s].mode = "update"
                  /\ h'[s].lock \in lockHeld'
                  /\ user_data'[u].verify_attempts = 0
                  /\ user_data'[u].verify = False
                  /\ UNCHANGED dbVars
       /\ (h[s].pc = "sc_persist" /\ h[s].mode = "update" /\ h'[s] # h[s]) =>
             /\ verify_users'[u].present /\ ~verify_users'[u].verified
             /\ verify_users'[u].expires_at = now + Ttl
             /\ lastNotice' = Notice(u, h[s].msg, "expired")
             /\ h'[s] = Idle
             /\ UNCHANGED <<block_users, users, messages, cacheVars>>

C27_GifVerifyDecision == [][\A s \in Slots : C27_Step(s)]_vars

\* An expired challenge has just been replaced and reported.
C27_Witness ==
    /\ lastNotice.kind = "expired"
    /\ now > 0
    /\ verify_users[lastNotice.userid].expires_at = now + Ttl
    /\ user_data[lastNotice.userid].verify_attempts = 0
    /\ AllIdle

\* C28: in no execution, deletions by /d and the retention job included, does
\* insert_message hit a uniqueness conflict and then find no row by
\* topic_message_id and none by (userid, private_message_id): no call raises.
C28_FatalUnreachable == \A c \in Callers : txn[c].ret # "raised"

\* C29: send_chat_action is called for a call of _check_spam_with_typing only
\* while its check_spam is pending; once check_spam has returned or raised the
\* task is cancelled (or had ended already), nothing more is sent, and the
\* wrapper leaves as check_spam did, the cancellation never reaching the caller.
C29_TypingLifetime ==
    [][/\ sp'.typed # sp.typed =>
             /\ sp.wrap = "running" /\ sp.pc \in {"acquire", "request"}
             /\ sp'.pc = sp.pc
       /\ sp'.wrap = "joining" => sp'.task \in {"cancelling", "cancelled", "failed"}
       /\ sp'.wrap \in {"returned", "raised"} =>
             /\ sp'.task = "cancelled"
             /\ sp'.wrap = sp'.ret
       /\ sp'.wrap = "indicator_raised" => sp'.task = "failed"]_vars

\* The indicator was sent, check_spam returned, the task was cancelled and the
\* wrapper returned.
C29_Witness ==
    /\ sp.wrap = "returned"
    /\ sp.task = "cancelled"
    /\ sp.typed > 0
    /\ sp.via = "classifier"

\* C30: the classifier is called only when token, base URL and model are all
\* set, and each of its calls, for a new message or for an edit, comes with
\* one token taken from the one limiter; when a setting is missing check_spam
\* returns the keyword verdict, takes no token and does not call the classifier.
C30_Missing(cfg) == cfg.token = "" \/ cfg.base_url = "" \/ cfg.model = ""

C30_ClassifierDiscipline ==
    [][/\ sp'.requests # sp.requests =>
             /\ ~C30_Missing(sp.config)
             /\ sp'.requests = sp.requests + 1
             /\ sp'.tokens = sp.tokens + 1
       /\ sp'.requests = sp'.tokens
       /\ sp.pc # "none" => sp'.config = sp.config
       /\ (C30_Missing(sp'.config) /\ sp'.origin # "") =>
             /\ sp'.pc = "done" /\ sp'.ret = "returned" /\ sp'.via = "words"
             /\ [spam |-> sp'.spam, reason |-> sp'.reason] =
                    detect_of_words(sp'.words, sp'.text)
             /\ sp'.tokens = 0 /\ sp'.requests = 0]_vars

\* The classifier has been called for a new message and then for an edit,
\* each time with a token of its own.
C30_Witness ==
    /\ sp.origin = "edit"
    /\ sp.pc = "request"
    /\ sp.tokens = 2 /\ sp.requests = 2

\* C31: no step of a handler of a staff thread message or a staff thread edit
\* calls the classifier, takes a limiter token, records a flood timestamp, or
\* depends on or changes verification or block state (a mapped user's message
\* is copied whether or not the user is blocked); a thread edit of a mapped
\* message edits the private copy the row names, with exactly the edited
\* text; a thread message in a thread without a mapped user makes no call.
C31_Step(s) ==
    LET new == gw' \ gw
    IN  (h[s].kind \in {"tm", "te"} /\ h'[s] # h[s]) =>
          /\ \A c \in new : c.op \in {"copy_to_private", "send_message_blocked",
                                      "edit_message_text"}
          /\ sp' = sp
          /\ UNCHANGED <<user_message_time_queues, floodHist, floodRet, verify_users,
                         block_users, users, user_data>>
          /\ (h[s].kind = "tm" /\ select_user_by_topic(users, h[s].topic) = 0) =>
                /\ new = {}
                /\ h[s].pc \in {"tm", "tm_seluser"}
                /\ h[s].pc = "tm_seluser" => h'[s] = Idle
          /\ (h[s].pc = "tm_seluser" /\ select_user_by_topic(users, h[s].topic) # 0) =>
                /\ h'[s].pc \in {"tm_copy", "tm_wait"}
                /\ h'[s].user = select_user_by_topic(users, h[s].topic)
          /\ h[s].pc = "tm_copy" => Cardinality(new) = 1
          /\ h[s].kind = "te" =>
                \A c \in new :
                    /\ c.text = h[s].text /\ c.text # NoText
                    /\ c.arg = PrivateSide
                    /\ \E r \in messages : /\ r.topic_message_id = h[s].msg
                                            /\ r.userid = c.user
                                            /\ r.private_message_id = c.msg

C31_StaffTrusted == [][\A s \in Slots : C31_Step(s)]_vars

\* A staff message was copied to a user who has a BlockRecord, and an edit of
\* it replaced the text of that private copy.
C31_Witness ==
    \E c \in gw, e \in gw :
        /\ c.op = "copy_to_private" /\ block_users[c.user].present
        /\ e.op = "edit_message_text" /\ e.user = c.user /\ e.msg = c.out
        /\ e.arg = PrivateSide /\ e.text # NoText

\* C32: the private messages of one user are relayed in the order of their
\* arrival: of two relayed messages of a user, the one that arrived first was
\* copied or forwarded first.
C32_PerUserOrder ==
    \A c, d \in gw :
        (/\ c.op \in {"copy_message", "forward_message"}
         /\ d.op \in {"copy_message", "forward_message"}
         /\ c.user = d.user
         /\ c.msg < d.msg) => c.out < d.out

\* C33: a user's pipeline is never held up by another user's mutex: while a
\* pipeline of user a holds a's mutex in the classification and further
\* updates of a wait for that mutex, an update of a user b whose mutex is free
\* finds a worker of the concurrent_updates pool and starts.
C33_Busy(a) ==
    /\ \E s \in Slots : h[s].user = a /\ h[s].pc = "mt_spam" /\ h[s].lock \in lockHeld
    /\ \E s \in Slots : h[s].user = a /\ h[s].pc = "mt_wait"

C33_Independent ==
    \A a, b \in Users :
        (a # b /\ C33_Busy(a) /\ LockFree(get_user_lock(user_locks, b)))
            => \E s \in Slots : FreeSlot(s)

\* C34: User rows are write-once: no step changes the topic of an existing row
\* or leaves two rows with one topic, insert_user on an existing userid writes
\* nothing, and the handlers of /verify, /ban and /unban leave the table alone.
C34_StaffStep ==
    \E s \in Slots : h[s].kind \in {"ban", "unban", "verify"} /\ h'[s] # h[s]

C34_WriteOnce ==
    [][/\ \A u \in Users : users[u] # 0 => users'[u] = users[u]
       /\ \A u, v \in Users : (u # v /\ users'[u] # 0) => users'[u] # users'[v]
       /\ C34_StaffStep => users' = users]_vars

\* The cache holds for a user a thread other than the one of the user's row:
\* a second create_topic made a thread of its own, and its insert_user found
\* the row and wrote nothing.
C34_Witness ==
    \E u \in Users :
        /\ users[u] # 0
        /\ user_data[u].to_topic \notin {0, users[u]}
        /\ \E c \in gw : /\ c.op = "create_forum_topic" /\ c.user = u
                          /\ c.out = user_data[u].to_topic

\* C35: /d deletes the copies and the mapping row of a mapped message only when
\* it comes from the owning user's private chat or from the staff group: a
\* handler of /d from any other chat deletes no message and removes no row.
C35_DeleteAuthorized ==
    [][\A s \in Slots :
          (/\ h[s].kind = "d" /\ h'[s] # h[s]
           /\ (gw' # gw \/ messages' # messages)) =>
              \/ h[s].chat = "group"
              \/ h[s].chat = "private" /\ h[s].msg_data.userid = h[s].user]_vars

\* C36: whatever happens to the typing-indicator task, _check_spam_with_typing
\* leaves as check_spam did: it returns the verdict check_spam returned, or
\* raises what check_spam raised.
C36_IndicatorHarmless ==
    sp.wrap \in {"returned", "raised", "indicator_raised"} => sp.wrap = sp.ret

\* C37: while a BlockRecord exists for a user, the handler of an edit of one of
\* the user's private messages changes nothing in the staff group: it edits no
\* thread copy and forwards nothing to the moderation thread.
C37_BlockedEditsStay ==
    [][\A s \in Slots :
          (/\ h[s].kind = "pe" /\ h'[s] # h[s]
           /\ \E c \in gw' \ gw : c.op \in {"edit_message_text", "forward_edited"}) =>
              ~block_users[h[s].user].present]_vars

\* C38: a private message without text of an unverified user whose challenge
\* has not expired is no attempt: _verify_attempts leaves the cached counter
\* as it was and does not go on to block the user.
C38_OnlyTextCounts ==
    [][\A s \in Slots :
          (/\ h[s].kind = "pm" /\ h[s].text = NoText
           /\ h[s].pc \in {"va_select", "va_wait"} /\ h'[s] # h[s]) =>
              /\ user_data'[h[s].user].verify_attempts =
                     user_data[h[s].user].verify_attempts
              /\ h'[s].pc # "va_insblock"]_vars

\* C39: after the unban of a user whom three wrong submissions had blocked,
\* _verify_attempts decides to block the user again only when at least three
\* wrong submissions have been compared since the unban.
C39_FreshBudget ==
    [][\A s \in Slots :
          (/\ h'[s].pc = "va_insblock" /\ h[s].pc # "va_insblock"
           /\ sinceUnban[h'[s].user] >= 0) =>
              sinceUnban'[h'[s].user] >= MaxAttempts]_vars

\* C40: whenever no pipeline of a user is in flight, the cached block flag of
\* the user agrees with the repository: a flag of true means that a BlockRecord
\* exists, a flag of false that none does; an absent flag means nothing.
C40_InFlight(u) ==
    \E s \in Slots :
        /\ h[s].kind # "idle"
        /\ h[s].user = u \/ (h[s].topic # 0 /\ h[s].topic = users[u])

C40_FlagAgrees ==
    \A u \in Users :
        ~C40_InFlight(u) =>
            /\ get_flag(user_data, u, "block", None) = True => block_users[u].present
            /\ get_flag(user_data, u, "block", None) = False => ~block_users[u].present

====
